---- MODULE Spec2Model ----
(***************************************************************************)
(* Model of mcp_skills.services.indexing_engine.IndexingEngine: the hybrid *)
(* discovery engine that indexes skills into a ChromaDB collection and a   *)
(* NetworkX DiGraph, and answers search / related-skill queries.           *)
(*                                                                         *)
(* Strings whose characters matter (tags, toolchain, query) are sequences  *)
(* of one-character strings; scores are exact fractions <<num, den>>.      *)
(***************************************************************************)
EXTENDS Integers, Sequences, FiniteSets, TLC

VARIABLES
    collection,     \* self.collection: the ChromaDB records, in insertion order
    graph,          \* self.graph: the networkx DiGraph
    skill_manager,  \* self.skill_manager: absent, or the skills load_skill resolves
    indexOps,       \* number of index_skill calls made so far (bounds the model)
    last_indexed,   \* self._last_indexed: 0 for None, else the time it was set
    out,            \* what the last call did and returned
    metadata_file,  \* RepositoryManager.metadata_file: the entries of repos.json
    base_dir,       \* RepositoryManager.base_dir: the repo ids with a clone on disk
    repoOps,        \* number of RepositoryManager calls made so far (the clock)
    serialized,     \* whether the callers hold a lock around index_skill and reindex_all
    writer,         \* a caller of index_skill: its position in the call
    reindexer,      \* a caller of reindex_all(force=True): its position in the call
    statsReader,    \* a caller of get_stats: its position and what it has read
    searchReader    \* a caller of search: its position and what it has read

engineVars == <<collection, graph, skill_manager, indexOps, last_indexed>>

repoVars == <<metadata_file, base_dir, repoOps>>

raceVars == <<serialized, writer, reindexer, statsReader, searchReader>>

vars == <<engineVars, out, repoVars, raceVars>>

----------------------------------------------------------------------------
(* Bounds of the model *)

\* index_skill calls in a run of Spec, and in a run of SearchSpec
MaxIndexOps == 3
MaxSearchIndexOps == 2
\* largest L2 distance the vector store reports
MaxDist == 1
\* largest max_depth a traversal is called with
MaxDepth == 2
\* largest top_k search is called with
MaxTopK == 2

\* RepositoryManager calls in a run
MaxRepoOps == 3

----------------------------------------------------------------------------
(* Program constants *)

\* VECTOR_WEIGHT = 0.7 and GRAPH_WEIGHT = 0.3, in tenths
VECTOR_WEIGHT == 7
GRAPH_WEIGHT == 3
WeightDen == VECTOR_WEIGHT + GRAPH_WEIGHT

\* search() asks the vector phase for top_k * 2 candidates
OverFetch == 2

\* search() calls _graph_search(seed_skill_id, max_depth=2)
SearchMaxDepth == 2

\* _create_embeddable_text keeps skill.instructions[:500]
InstructionsPreview == 500

\* get_stats estimates 2048 bytes per stored skill
BytesPerSkill == 2048

----------------------------------------------------------------------------
(* Generic helpers *)

Range(s) == {s[i] : i \in DOMAIN s}

Min(a, b) == IF a <= b THEN a ELSE b

Contains(s, x) == \E i \in DOMAIN s : s[i] = x

\* xs[:n] for n >= 0
Take(xs, n) == SubSeq(xs, 1, Min(n, Len(xs)))

\* Python's None where it is compared with a string
None == "<None>"

----------------------------------------------------------------------------
(* Exact fractions <<num, den>>, den > 0 *)

Frac(n, d) == <<n, d>>

FZero == Frac(0, 1)

FLess(a, b) == a[1] * b[2] < b[1] * a[2]

FEq(a, b) == a[1] * b[2] = b[1] * a[2]

FPositive(a) == a[1] > 0

----------------------------------------------------------------------------
(* Characters and strings *)

lower(c) ==
    CASE c = "P" -> "p"
      [] c = "Y" -> "y"
      [] c = "J" -> "j"
      [] c = "S" -> "s"
      [] OTHER -> c

\* str.lower()
Lower(str) == [i \in DOMAIN str |-> lower(str[i])]

\* sub in str
IsSubstring(sub, str) ==
    \E k \in 0..(Len(str) - Len(sub)) :
        \A i \in 1..Len(sub) : str[k + i] = sub[i]

\* str.strip() == "" : only whitespace
IsBlank(str) == \A i \in DOMAIN str : str[i] \in {" ", "\t", "\n"}

\* ",".join(tags)
RECURSIVE JoinTags(_)
JoinTags(tags) ==
    IF tags = <<>> THEN <<>>
    ELSE IF Len(tags) = 1 THEN tags[1]
    ELSE tags[1] \o <<",">> \o JoinTags(Tail(tags))

\* tags_str.split(",")
RECURSIVE SplitComma(_, _)
SplitComma(str, cur) ==
    IF str = <<>> THEN <<cur>>
    ELSE IF Head(str) = "," THEN <<cur>> \o SplitComma(Tail(str), <<>>)
    ELSE SplitComma(Tail(str), Append(cur, Head(str)))

\* tags_str.split(",") if tags_str else []
SplitTags(tags_str) == IF tags_str = <<>> THEN <<>> ELSE SplitComma(tags_str, <<>>)

\* any(toolchain.lower() in tag.lower() for tag in tags)
AnyTagMatches(toolchain, tags) ==
    \E i \in DOMAIN tags : IsSubstring(Lower(toolchain), Lower(tags[i]))

----------------------------------------------------------------------------
(* Skills *)

SkillIds == {"A", "B", "C"}

\* "D" is only ever named as a dependency: it is never indexed
NodeIds == SkillIds \cup {"D"}

TagPy == <<"P", "y">>
TagJs == <<"j", "s">>

\* a skill with a description and instructions
MkSkill(id, name, category, tags, deps) ==
    [id |-> id, name |-> name, description |-> "d", instructions |-> <<"i">>,
     category |-> category, tags |-> tags, dependencies |-> deps]

A1 == MkSkill("A", "a1", "x", <<TagPy>>, <<>>)
B1 == MkSkill("B", "b1", "x", <<TagPy, TagJs>>, <<>>)
C1 == MkSkill("C", "c1", "y", <<TagJs>>, <<>>)
A2 == MkSkill("A", "a2", "y", <<TagJs, TagPy>>, <<"B", "D">>)
B2 == MkSkill("B", "b2", "x", <<TagPy>>, <<"C", "A">>)
C2 == MkSkill("C", "c2", "x", <<>>, <<"C", "C">>)
D1 == MkSkill("D", "d1", "y", <<TagPy>>, <<>>)

\* a skill with empty name, description and instructions, and no tags
B0 ==
    [id |-> "B", name |-> "", description |-> "", instructions |-> <<>>,
     category |-> "x", tags |-> <<>>, dependencies |-> <<>>]

\* The skills search is tried on
RankedPool == {A1, B1, C1, A2, B2, C2}

\* The skills index_skill is called with
SkillPool == RankedPool \cup {B0}

\* search inputs: the query, the toolchain and category filters ("" and <<>>
\* stand for None and the empty string alike: both are falsy), and which call
\* raises
Queries == {<<>>, <<" ">>, <<"\t", " ">>, <<"q">>}
Toolchains == {<<>>, <<"p", "Y">>}
CategoryFilters == {"", "x"}
SearchFaults == {"none", "query", "graph", "load"}

\* index_skill: whether collection.add raises
IndexFaults == {"none", "add"}

\* load_skill's "not found"
NoSkill ==
    [id |-> None, name |-> None, description |-> None, instructions |-> <<>>,
     category |-> None, tags |-> <<>>, dependencies |-> <<>>]

----------------------------------------------------------------------------
(* The skill manager: load_skill *)

NoManager == [present |-> FALSE, cache |-> [n \in NodeIds |-> NoSkill]]

\* resolves every id, with the skills as first indexed
ManagerAll ==
    [present |-> TRUE,
     cache |-> [n \in NodeIds |->
                  CASE n = "A" -> A1 [] n = "B" -> B1 [] n = "C" -> C1 [] OTHER -> D1]]

\* a corpus that moved on: A changed, B and D are gone
ManagerStale ==
    [present |-> TRUE,
     cache |-> [n \in NodeIds |->
                  CASE n = "A" -> A2 [] n = "C" -> C1 [] OTHER -> NoSkill]]

Managers == {NoManager, ManagerAll, ManagerStale}

\* self.skill_manager.load_skill(skill_id): the cached skill or None
load_skill(mgr, skill_id) == mgr.cache[skill_id]

----------------------------------------------------------------------------
(* networkx.DiGraph *)

RelKinds == {"depends_on", "same_category", "shared_tag"}

\* node_data of a node added without attributes: .get("category") is None,
\* .get("tags", []) is []
NoAttrs == [name |-> None, category |-> None, tags |-> <<>>]

\* nx.DiGraph(), and the graph after graph.clear()
EmptyGraph ==
    [nodes |-> <<>>,
     attrs |-> [n \in NodeIds |-> NoAttrs],
     adj |-> [n \in NodeIds |-> <<>>],
     rel |-> [e \in NodeIds \X NodeIds |-> None]]

\* node in self.graph
InGraph(g, n) == Contains(g.nodes, n)

\* graph.add_node(n, name=, category=, tags=): a new node is appended, an
\* existing one keeps its place and has its attributes overwritten
AddNode(g, n, a) ==
    [g EXCEPT !.nodes = IF Contains(@, n) THEN @ ELSE Append(@, n),
              !.attrs[n] = a]

\* node creation implied by add_edge: no attributes
TouchNode(g, n) ==
    IF InGraph(g, n) THEN g ELSE [g EXCEPT !.nodes = Append(@, n)]

\* graph.add_edge(u, v, relation_type=r) on a DiGraph: one edge per ordered
\* pair; adding it again updates the edge's relation_type in place
AddEdge(g, u, v, r) ==
    LET g2 == TouchNode(TouchNode(g, u), v)
    IN  [g2 EXCEPT !.adj[u] = IF Contains(@, v) THEN @ ELSE Append(@, v),
                   !.rel[<<u, v>>] = r]

\* graph.neighbors(n): successors, in edge insertion order
Neighbors(g, n) == g.adj[n]

HasEdge(g, u, v) == Contains(g.adj[u], v)

\* graph.number_of_nodes()
NumberOfNodes(g) == Len(g.nodes)

RECURSIVE SumLen(_, _)
SumLen(g, S) ==
    IF S = {} THEN 0
    ELSE LET n == CHOOSE x \in S : TRUE
         IN  Len(g.adj[n]) + SumLen(g, S \ {n})

\* graph.number_of_edges()
NumberOfEdges(g) == SumLen(g, NodeIds)

----------------------------------------------------------------------------
(* extract_relationships *)

\* for dep_id in skill.dependencies: (skill.id, "depends_on", dep_id)
DependencyTriples(skill) ==
    [i \in 1..Len(skill.dependencies) |->
        <<skill.id, "depends_on", skill.dependencies[i]>>]

\* CategoryTriples without the node_id != skill.id test
RECURSIVE CategoryTriplesWithSelf(_, _, _)
CategoryTriplesWithSelf(g, skill, i) ==
    IF i > Len(g.nodes) THEN <<>>
    ELSE LET node_id == g.nodes[i]
         IN  (IF g.attrs[node_id].category = skill.category
              THEN << <<skill.id, "same_category", node_id>> >>
              ELSE <<>>)
             \o CategoryTriplesWithSelf(g, skill, i + 1)

\* for node_id, node_data in graph.nodes(data=True): same category
RECURSIVE CategoryTriples(_, _, _)
CategoryTriples(g, skill, i) ==
    IF i > Len(g.nodes) THEN <<>>
    ELSE LET node_id == g.nodes[i]
         IN  (IF node_id # skill.id /\ g.attrs[node_id].category = skill.category
              THEN << <<skill.id, "same_category", node_id>> >>
              ELSE <<>>)
             \o CategoryTriples(g, skill, i + 1)

\* for node_id, node_data in graph.nodes(data=True): overlapping tags
RECURSIVE TagTriples(_, _, _)
TagTriples(g, skill, i) ==
    IF i > Len(g.nodes) THEN <<>>
    ELSE LET node_id == g.nodes[i]
             shared_tags == Range(skill.tags) \cap Range(g.attrs[node_id].tags)
         IN  (IF node_id # skill.id /\ shared_tags # {}
              THEN << <<skill.id, "shared_tag", node_id>> >>
              ELSE <<>>)
             \o TagTriples(g, skill, i + 1)

ExtractRelationships(g, skill) ==
    DependencyTriples(skill) \o CategoryTriples(g, skill, 1) \o TagTriples(g, skill, 1)

----------------------------------------------------------------------------
(* index_skill *)

\* " ".join(tags), as characters
RECURSIVE JoinSpaces(_)
JoinSpaces(tags) ==
    IF tags = <<>> THEN <<>>
    ELSE IF Len(tags) = 1 THEN tags[1]
    ELSE tags[1] \o <<" ">> \o JoinSpaces(Tail(tags))

\* _create_embeddable_text(skill): f"{name} {description} {instructions[:500]}
\* {' '.join(tags)}", as the pieces the f-string concatenates
CreateEmbeddableText(skill) ==
    <<skill.name, " ", skill.description, " ">>
    \o Take(skill.instructions, InstructionsPreview)
    \o <<" ">> \o JoinSpaces(skill.tags)

\* not text.strip(): every piece is empty or a space
IsBlankText(text) == \A i \in DOMAIN text : text[i] \in {"", " "}

\* the metadata dict stored with the document
Metadata(skill) ==
    [skill_id |-> skill.id, name |-> skill.name, category |-> skill.category,
     tags |-> JoinTags(skill.tags)]

CollectionIds(c) == {c[i].id : i \in DOMAIN c}

\* collection.add(ids=[id], documents=[document], metadatas=[metadata]):
\* ChromaDB ignores an id it already holds (the stored record is kept); the
\* releases that reject it instead raise, which is IndexFaults' "add"
CollectionAdd(c, id, document, metadata) ==
    IF id \in CollectionIds(c) THEN c
    ELSE Append(c, [id |-> id, document |-> document, metadata |-> metadata])

\* collection.count()
Count(c) == Len(c)

\* for source_id, relation_type, target_id in relationships: graph.add_edge
RECURSIVE AddEdges(_, _, _)
AddEdges(g, relationships, i) ==
    IF i > Len(relationships) THEN g
    ELSE AddEdges(AddEdge(g, relationships[i][1], relationships[i][3],
                          relationships[i][2]),
                  relationships, i + 1)

\* steps 3 and 4 with the skill's outgoing edges dropped before the new
\* ones are added
IndexGraphReplacesEdges(g, skill) ==
    LET g1 == AddNode([g EXCEPT !.adj[skill.id] = <<>>], skill.id,
                      [name |-> skill.name, category |-> skill.category,
                       tags |-> skill.tags])
    IN  AddEdges(g1, ExtractRelationships(g1, skill), 1)

\* steps 3 and 4 of index_skill: the node, then the extracted edges
IndexGraph(g, skill) ==
    LET g1 == AddNode(g, skill.id,
                      [name |-> skill.name, category |-> skill.category,
                       tags |-> skill.tags])
    IN  AddEdges(g1, ExtractRelationships(g1, skill), 1)

\* the triples index_skill extracts, after it has added the node
IndexRelationships(g, skill) ==
    ExtractRelationships(
        AddNode(g, skill.id,
                [name |-> skill.name, category |-> skill.category,
                 tags |-> skill.tags]),
        skill)

\* index_skill with the graph node added before the store write
IndexSkillNodeFirst(c, g, skill, fault) ==
    IF fault = "add"
    THEN [collection |-> c,
          graph |-> AddNode(g, skill.id,
                            [name |-> skill.name, category |-> skill.category,
                             tags |-> skill.tags]),
          ok |-> FALSE, raised |-> FALSE]
    ELSE [collection |-> CollectionAdd(c, skill.id, CreateEmbeddableText(skill),
                                       Metadata(skill)),
          graph |-> IndexGraph(g, skill), ok |-> TRUE, raised |-> FALSE]

\* index_skill(skill) on collection c and graph g; fault = "add" is
\* collection.add raising, which the except clause logs and swallows before
\* the graph is touched: the call never raises
IndexSkillCall(c, g, skill, fault) ==
    IF fault = "add"
    THEN [collection |-> c, graph |-> g, ok |-> FALSE, raised |-> FALSE]
    ELSE [collection |-> CollectionAdd(c, skill.id, CreateEmbeddableText(skill),
                                       Metadata(skill)),
          graph |-> IndexGraph(g, skill), ok |-> TRUE, raised |-> FALSE]

\* No call is in progress and the last one changed the index (or none was
\* made yet). A read-only call leaves every variable but out as it is, and no
\* call reads out, so each call is taken from these states only: what a call
\* does after a read-only call it does after the call before that one
Observable == out.op \in {"init", "index_skill", "reindex_all", "restart"}

IndexStep(skill, fault) ==
    LET r == IndexSkillCall(collection, graph, skill, fault)
    IN  /\ Observable
        /\ indexOps' = indexOps + 1
        /\ collection' = r.collection
        /\ graph' = r.graph
        /\ out' = [op |-> "index_skill", skill |-> skill, fault |-> fault,
                   ok |-> r.ok, raised |-> r.raised,
                   relationships |-> IF r.ok THEN IndexRelationships(graph, skill)
                                     ELSE <<>>]
        /\ UNCHANGED <<skill_manager, last_indexed, repoVars, raceVars>>

IndexSkill(skill, fault) ==
    /\ indexOps < MaxIndexOps
    /\ IndexStep(skill, fault)

\* index_skill in a run of SearchSpec
IndexForSearch(skill, fault) ==
    /\ indexOps < MaxSearchIndexOps
    /\ IndexStep(skill, fault)


----------------------------------------------------------------------------
(* _graph_search *)

\* for neighbor in graph.neighbors(current_id): if neighbor not in
\* visited_nodes: queue.append((neighbor, depth + 1))
RECURSIVE EnqueueNeighbors(_, _, _, _)
EnqueueNeighbors(queue, neighbors, visited_nodes, depth) ==
    IF neighbors = <<>> THEN queue
    ELSE EnqueueNeighbors(
             IF Head(neighbors) \notin visited_nodes
             THEN Append(queue, <<Head(neighbors), depth + 1>>)
             ELSE queue,
             Tail(neighbors), visited_nodes, depth)

\* the while loop without the visited set: a node is emitted every time it
\* is dequeued
RECURSIVE GraphSearchLoopRevisits(_, _, _, _, _)
GraphSearchLoopRevisits(g, max_depth, queue, visited_nodes, graph_results) ==
    IF queue = <<>> THEN graph_results
    ELSE LET current_id == Head(queue)[1]
             depth == Head(queue)[2]
             rest == Tail(queue)
         IN  IF depth > max_depth
             THEN GraphSearchLoopRevisits(g, max_depth, rest, {}, graph_results)
             ELSE LET results2 == Append(graph_results,
                                         [skill_id |-> current_id,
                                          score |-> Frac(1, depth + 1)])
                      queue2 == IF depth < max_depth
                                THEN EnqueueNeighbors(rest, Neighbors(g, current_id),
                                                      {}, depth)
                                ELSE rest
                  IN  GraphSearchLoopRevisits(g, max_depth, queue2, {}, results2)

\* the while loop of _graph_search
RECURSIVE GraphSearchLoop(_, _, _, _, _)
GraphSearchLoop(g, max_depth, queue, visited_nodes, graph_results) ==
    IF queue = <<>> THEN graph_results
    ELSE LET current_id == Head(queue)[1]
             depth == Head(queue)[2]
             rest == Tail(queue)
         IN  IF current_id \in visited_nodes \/ depth > max_depth
             THEN GraphSearchLoop(g, max_depth, rest, visited_nodes, graph_results)
             ELSE LET visited2 == visited_nodes \cup {current_id}
                      score == Frac(1, depth + 1)
                      results2 == Append(graph_results,
                                         [skill_id |-> current_id, score |-> score])
                      queue2 == IF depth < max_depth
                                THEN EnqueueNeighbors(rest, Neighbors(g, current_id),
                                                      visited2, depth)
                                ELSE rest
                  IN  GraphSearchLoop(g, max_depth, queue2, visited2, results2)

\* GraphSearch scoring and expanding one level too far
GraphSearchTooDeep(g, seed_skill_id, max_depth, fault) ==
    IF fault = "graph" THEN <<>>
    ELSE IF ~InGraph(g, seed_skill_id) THEN <<>>
    ELSE GraphSearchLoop(g, max_depth + 1, << <<seed_skill_id, 0>> >>, {}, <<>>)

\* _graph_search(seed_skill_id, max_depth); fault = "graph" is the traversal
\* raising, which the except clause turns into []
GraphSearch(g, seed_skill_id, max_depth, fault) ==
    IF fault = "graph" THEN <<>>
    ELSE IF ~InGraph(g, seed_skill_id) THEN <<>>
    ELSE GraphSearchLoop(g, max_depth, << <<seed_skill_id, 0>> >>, {}, <<>>)

----------------------------------------------------------------------------
(* get_related_skills *)

\* the while loop of get_related_skills
RECURSIVE RelatedLoop(_, _, _, _, _, _)
RelatedLoop(g, skill_id, max_depth, queue, visited_nodes, related_ids) ==
    IF queue = <<>> THEN related_ids
    ELSE LET current_id == Head(queue)[1]
             depth == Head(queue)[2]
             rest == Tail(queue)
         IN  IF current_id \in visited_nodes \/ depth > max_depth
             THEN RelatedLoop(g, skill_id, max_depth, rest, visited_nodes, related_ids)
             ELSE LET visited2 == visited_nodes \cup {current_id}
                      related2 == IF current_id # skill_id
                                  THEN Append(related_ids, current_id)
                                  ELSE related_ids
                      queue2 == IF depth < max_depth
                                THEN EnqueueNeighbors(rest, Neighbors(g, current_id),
                                                      visited2, depth)
                                ELSE rest
                  IN  RelatedLoop(g, skill_id, max_depth, queue2, visited2, related2)

\* RelatedIds that does not leave the starting node out
RelatedIdsWithSeed(g, skill_id, max_depth) ==
    IF ~InGraph(g, skill_id) THEN <<>>
    ELSE <<skill_id>> \o RelatedLoop(g, skill_id, max_depth, << <<skill_id, 0>> >>, {}, <<>>)

\* the ids get_related_skills visits, before they are resolved
RelatedIds(g, skill_id, max_depth) ==
    IF ~InGraph(g, skill_id) THEN <<>>
    ELSE RelatedLoop(g, skill_id, max_depth, << <<skill_id, 0>> >>, {}, <<>>)

\* LoadAll that keeps what load_skill answers, None included
RECURSIVE LoadAllKeepsNone(_, _)
LoadAllKeepsNone(mgr, ids) ==
    IF ids = <<>> THEN <<>>
    ELSE <<load_skill(mgr, Head(ids))>> \o LoadAllKeepsNone(mgr, Tail(ids))

\* for related_id in related_ids: load_skill, keep the ones that resolve
RECURSIVE LoadAll(_, _)
LoadAll(mgr, ids) ==
    IF ids = <<>> THEN <<>>
    ELSE LET skill == load_skill(mgr, Head(ids))
         IN  (IF skill # NoSkill THEN <<skill>> ELSE <<>>) \o LoadAll(mgr, Tail(ids))

\* get_related_skills(skill_id, max_depth)
RelatedSkills(g, mgr, skill_id, max_depth) ==
    IF mgr.present THEN LoadAll(mgr, RelatedIds(g, skill_id, max_depth)) ELSE <<>>

----------------------------------------------------------------------------
(* _vector_search *)

\* where={"category": category}: the records ChromaDB considers
RECURSIVE WhereCategory(_, _)
WhereCategory(c, category) ==
    IF c = <<>> THEN <<>>
    ELSE (IF category = "" \/ Head(c).metadata.category = category
          THEN <<Head(c)>> ELSE <<>>)
         \o WhereCategory(Tail(c), category)

\* insert a record into a list kept in ascending distance, after its equals
RECURSIVE InsertByDistance(_, _, _)
InsertByDistance(sorted, rec, dist) ==
    IF sorted = <<>> THEN <<rec>>
    ELSE IF dist[rec.id] < dist[Head(sorted).id] THEN <<rec>> \o sorted
    ELSE <<Head(sorted)>> \o InsertByDistance(Tail(sorted), rec, dist)

RECURSIVE NearestFirst(_, _, _)
NearestFirst(c, dist, i) ==
    IF i = 0 THEN <<>>
    ELSE InsertByDistance(NearestFirst(c, dist, i - 1), c[i], dist)

\* collection.query(query_texts=[query], n_results=n, where=...): the n
\* nearest records that pass the where filter, nearest first; dist is the
\* L2 distance of each stored document from the query
CollectionQuery(c, dist, n_results, category) ==
    LET passing == WhereCategory(c, category)
    IN  Take(NearestFirst(passing, dist, Len(passing)), n_results)

\* the loop of _vector_search over the query's rows: similarity, and the
\* toolchain filter on the comma-separated tags of the metadata
RECURSIVE VectorRows(_, _, _)
VectorRows(rows, dist, toolchain) ==
    IF rows = <<>> THEN <<>>
    ELSE LET row == Head(rows)
             similarity == Frac(1, 1 + dist[row.id])
             tags == SplitTags(row.metadata.tags)
         IN  (IF toolchain # <<>> /\ ~AnyTagMatches(toolchain, tags)
              THEN <<>>
              ELSE << [skill_id |-> row.id, score |-> similarity] >>)
             \o VectorRows(Tail(rows), dist, toolchain)

\* _vector_search(query, toolchain, category, top_k); fault = "query" is
\* collection.query raising; ChromaDB also rejects n_results = 0; either way
\* the except clause returns []
VectorSearch(c, dist, toolchain, category, top_k, fault) ==
    LET n_results == Min(top_k, Count(c))
    IN  IF fault = "query" \/ n_results <= 0 THEN <<>>
        ELSE VectorRows(CollectionQuery(c, dist, n_results, category), dist, toolchain)

----------------------------------------------------------------------------
(* _combine_results *)

\* score_map[skill_id] = (vector_score, graph_score): a dict keeps the place
\* of a key it already holds
ScoreMapSet(score_map, skill_id, vector_score, graph_score) ==
    IF \E i \in DOMAIN score_map : score_map[i].skill_id = skill_id
    THEN [i \in DOMAIN score_map |->
            IF score_map[i].skill_id = skill_id
            THEN [skill_id |-> skill_id, vector_score |-> vector_score,
                  graph_score |-> graph_score]
            ELSE score_map[i]]
    ELSE Append(score_map, [skill_id |-> skill_id, vector_score |-> vector_score,
                            graph_score |-> graph_score])

\* score_map.get(skill_id, (0.0, 0.0))[0]
ScoreMapVector(score_map, skill_id) ==
    IF \E i \in DOMAIN score_map : score_map[i].skill_id = skill_id
    THEN score_map[CHOOSE i \in DOMAIN score_map : score_map[i].skill_id = skill_id].vector_score
    ELSE FZero

RECURSIVE AddVectorScores(_, _)
AddVectorScores(score_map, vector_results) ==
    IF vector_results = <<>> THEN score_map
    ELSE AddVectorScores(
             ScoreMapSet(score_map, Head(vector_results).skill_id,
                         Head(vector_results).score, FZero),
             Tail(vector_results))

RECURSIVE AddGraphScores(_, _)
AddGraphScores(score_map, graph_results) ==
    IF graph_results = <<>> THEN score_map
    ELSE AddGraphScores(
             ScoreMapSet(score_map, Head(graph_results).skill_id,
                         ScoreMapVector(score_map, Head(graph_results).skill_id),
                         Head(graph_results).score),
             Tail(graph_results))

ScoreMap(vector_results, graph_results) ==
    AddGraphScores(AddVectorScores(<<>>, vector_results), graph_results)

\* HybridScore with the two weights the wrong way round
HybridScoreSwapped(vector_score, graph_score) ==
    Frac(GRAPH_WEIGHT * vector_score[1] * graph_score[2]
           + VECTOR_WEIGHT * graph_score[1] * vector_score[2],
         WeightDen * vector_score[2] * graph_score[2])

\* VECTOR_WEIGHT * vector_score + GRAPH_WEIGHT * graph_score
HybridScore(vector_score, graph_score) ==
    Frac(VECTOR_WEIGHT * vector_score[1] * graph_score[2]
           + GRAPH_WEIGHT * graph_score[1] * vector_score[2],
         WeightDen * vector_score[2] * graph_score[2])

MatchType(vector_score, graph_score) ==
    IF FPositive(vector_score) /\ FPositive(graph_score) THEN "hybrid"
    ELSE IF FPositive(vector_score) THEN "vector"
    ELSE "graph"

\* the scoring loop: one ScoredSkill per id that load_skill resolves
RECURSIVE ScoreAll(_, _)
ScoreAll(mgr, score_map) ==
    IF score_map = <<>> THEN <<>>
    ELSE LET e == Head(score_map)
             skill == load_skill(mgr, e.skill_id)
         IN  (IF mgr.present /\ skill # NoSkill
              THEN << [skill |-> skill,
                       score |-> HybridScore(e.vector_score, e.graph_score),
                       match_type |-> MatchType(e.vector_score, e.graph_score)] >>
              ELSE <<>>)
             \o ScoreAll(mgr, Tail(score_map))

\* InsertByScore putting a record before its equals: an unstable sort
RECURSIVE InsertBeforeEquals(_, _)
InsertBeforeEquals(sorted, r) ==
    IF sorted = <<>> THEN <<r>>
    ELSE IF ~FLess(r.score, Head(sorted).score) THEN <<r>> \o sorted
    ELSE <<Head(sorted)>> \o InsertBeforeEquals(Tail(sorted), r)

\* insert into a list kept in descending score, after its equals
RECURSIVE InsertByScore(_, _)
InsertByScore(sorted, r) ==
    IF sorted = <<>> THEN <<r>>
    ELSE IF FLess(Head(sorted).score, r.score) THEN <<r>> \o sorted
    ELSE <<Head(sorted)>> \o InsertByScore(Tail(sorted), r)

\* combined_results.sort(key=score, reverse=True): stable
RECURSIVE SortByScore(_, _)
SortByScore(results, i) ==
    IF i = 0 THEN <<>>
    ELSE InsertByScore(SortByScore(results, i - 1), results[i])

\* _combine_results(vector_results, graph_results); fault = "load" is
\* load_skill raising, which _combine_results does not catch
CombineResults(mgr, vector_results, graph_results, fault) ==
    LET scored == ScoreAll(mgr, ScoreMap(vector_results, graph_results))
    IN  IF fault = "load" /\ mgr.present
              /\ ScoreMap(vector_results, graph_results) # <<>>
        THEN [raised |-> TRUE, value |-> <<>>]
        ELSE [raised |-> FALSE, value |-> SortByScore(scored, Len(scored))]

----------------------------------------------------------------------------
(* _apply_filters *)

RECURSIVE FilterCategory(_, _)
FilterCategory(results, category) ==
    IF results = <<>> THEN <<>>
    ELSE (IF Head(results).skill.category = category THEN <<Head(results)>> ELSE <<>>)
         \o FilterCategory(Tail(results), category)

RECURSIVE FilterToolchain(_, _)
FilterToolchain(results, toolchain) ==
    IF results = <<>> THEN <<>>
    ELSE (IF AnyTagMatches(toolchain, Head(results).skill.tags)
          THEN <<Head(results)>> ELSE <<>>)
         \o FilterToolchain(Tail(results), toolchain)

\* ApplyFilters leaving the category to the vector store's where clause
ApplyFiltersToolchainOnly(results, toolchain, category) ==
    IF toolchain # <<>> THEN FilterToolchain(results, toolchain) ELSE results

ApplyFilters(results, toolchain, category) ==
    LET filtered == IF category # "" THEN FilterCategory(results, category) ELSE results
    IN  IF toolchain # <<>> THEN FilterToolchain(filtered, toolchain) ELSE filtered

----------------------------------------------------------------------------
(* search *)

\* the vector phase asking for top_k candidates only
SearchVectorExact(c, dist, toolchain, category, top_k, fault) ==
    VectorSearch(c, dist, toolchain, category, top_k, fault)

\* the vector phase of search: top_k * 2 candidates
SearchVector(c, dist, toolchain, category, top_k, fault) ==
    VectorSearch(c, dist, toolchain, category, top_k * OverFetch, fault)

\* the graph phase seeded from the last vector hit
SearchGraphFromLast(g, vector_results, fault) ==
    IF vector_results # <<>>
    THEN GraphSearch(g, vector_results[Len(vector_results)].skill_id,
                     SearchMaxDepth, fault)
    ELSE <<>>

\* the graph phase of search: seeded from the top vector hit
SearchGraph(g, vector_results, fault) ==
    IF vector_results # <<>>
    THEN GraphSearch(g, vector_results[1].skill_id, SearchMaxDepth, fault)
    ELSE <<>>

\* the collaborators the try block calls: the collection always
\* (_vector_search), the graph when a vector hit remains (_graph_search), and
\* load_skill once per candidate (_combine_results)
SearchBackends(vector_results, graph_results) ==
    {"collection"}
        \cup (IF vector_results # <<>> THEN {"graph"} ELSE {})
        \cup (IF vector_results # <<>> \/ graph_results # <<>>
              THEN {"skill_manager"} ELSE {})

\* the body of search's try block
SearchTry(c, g, mgr, dist, toolchain, category, top_k, fault) ==
    LET vector_results == SearchVector(c, dist, toolchain, category, top_k, fault)
        graph_results == SearchGraph(g, vector_results, fault)
        combined == CombineResults(mgr, vector_results, graph_results, fault)
        calls == SearchBackends(vector_results, graph_results)
    IN  IF combined.raised
        THEN [raised |-> TRUE, value |-> combined.value, calls |-> calls]
        ELSE [raised |-> FALSE,
              value |-> Take(ApplyFilters(combined.value, toolchain, category), top_k),
              calls |-> calls]

\* SearchCall without the except clause around the try block
SearchCallNoExcept(c, g, mgr, query, dist, toolchain, category, top_k, fault) ==
    IF IsBlank(query) THEN [raised |-> FALSE, value |-> <<>>, calls |-> {}]
    ELSE SearchTry(c, g, mgr, dist, toolchain, category, top_k, fault)

\* SearchCall without the early return for a blank query
SearchCallNoBlankCheck(c, g, mgr, query, dist, toolchain, category, top_k, fault) ==
    LET tried == SearchTry(c, g, mgr, dist, toolchain, category, top_k, fault)
    IN  IF tried.raised
        THEN [raised |-> FALSE, value |-> <<>>, calls |-> tried.calls]
        ELSE tried

\* search(query, toolchain, category, top_k): [] for a blank query, [] when
\* the try block raises
SearchCall(c, g, mgr, query, dist, toolchain, category, top_k, fault) ==
    IF IsBlank(query) THEN [raised |-> FALSE, value |-> <<>>, calls |-> {}]
    ELSE LET tried == SearchTry(c, g, mgr, dist, toolchain, category, top_k, fault)
         IN  IF tried.raised
             THEN [raised |-> FALSE, value |-> <<>>, calls |-> tried.calls]
             ELSE tried

\* search with a query that is not blank; dist and fault are what the
\* vector store and the collaborators answer during the call
Search(query, dist, toolchain, category, top_k, fault) ==
    LET vector_results ==
            SearchVector(collection, dist, toolchain, category, top_k, fault)
        graph_results == SearchGraph(graph, vector_results, fault)
        combined == CombineResults(skill_manager, vector_results, graph_results, fault)
        returned == SearchCall(collection, graph, skill_manager, query, dist,
                               toolchain, category, top_k, fault)
    IN  /\ Observable
        /\ ~IsBlank(query)
        /\ out' = [op |-> "search", query |-> query, toolchain |-> toolchain,
                   category |-> category, top_k |-> top_k, fault |-> fault,
                   vector_results |-> vector_results,
                   graph_results |-> graph_results,
                   combined |-> combined.value,
                   try_raised |-> combined.raised,
                   raised |-> returned.raised,
                   calls |-> returned.calls,
                   dist |-> dist,
                   results |-> returned.value]
        /\ UNCHANGED <<engineVars, repoVars, raceVars>>

\* search with a blank query; dist is what the vector store would answer
SearchBlank(query, toolchain, category, top_k) ==
    LET dist == [id \in CollectionIds(collection) |-> 0]
        returned == SearchCall(collection, graph, skill_manager, query, dist,
                               toolchain, category, top_k, "none")
    IN  /\ Observable
        /\ IsBlank(query)
        /\ out' = [op |-> "search", query |-> query, toolchain |-> toolchain,
                   category |-> category, top_k |-> top_k, fault |-> "none",
                   vector_results |-> <<>>,
                   graph_results |-> <<>>,
                   combined |-> <<>>,
                   try_raised |-> FALSE,
                   raised |-> returned.raised,
                   calls |-> returned.calls,
                   dist |-> dist,
                   results |-> returned.value]
        /\ UNCHANGED <<engineVars, repoVars, raceVars>>

----------------------------------------------------------------------------
(* get_stats *)

\* datetime.isoformat()
IsoFormat(time) == ToString(time)

\* the snapshot of the except clause
ErrorStats ==
    [total_skills |-> 0, vector_store_size |-> 0, graph_nodes |-> 0,
     graph_edges |-> 0, last_indexed |-> "error"]

\* get_stats without its except clause
GetStatsNoExcept(c, g, last, fault) ==
    IF fault = "count" THEN [raised |-> TRUE, value |-> ErrorStats]
    ELSE [raised |-> FALSE,
          value |-> [total_skills |-> Count(c),
                     vector_store_size |-> Count(c) * BytesPerSkill,
                     graph_nodes |-> NumberOfNodes(g),
                     graph_edges |-> NumberOfEdges(g),
                     last_indexed |-> IF last # 0 THEN IsoFormat(last) ELSE "never"]]

\* get_stats(); fault = "count" is collection.count() raising
GetStatsCall(c, g, last, fault) ==
    IF fault = "count" THEN [raised |-> FALSE, value |-> ErrorStats]
    ELSE [raised |-> FALSE,
          value |-> [total_skills |-> Count(c),
                     vector_store_size |-> Count(c) * BytesPerSkill,
                     graph_nodes |-> NumberOfNodes(g),
                     graph_edges |-> NumberOfEdges(g),
                     last_indexed |-> IF last # 0 THEN IsoFormat(last) ELSE "never"]]

StatsFaults == {"none", "count"}

GetStats(fault) ==
    LET r == GetStatsCall(collection, graph, last_indexed, fault)
    IN  /\ Observable
        /\ out' = [op |-> "get_stats", fault |-> fault, raised |-> r.raised,
                   stats |-> r.value]
        /\ UNCHANGED <<engineVars, repoVars, raceVars>>

----------------------------------------------------------------------------
(* reindex_all *)

Max(a, b) == IF a >= b THEN a ELSE b

\* collection.delete(ids=ids)
CollectionDelete(c, ids) == SelectSeq(c, LAMBDA r : r.id \notin ids)

\* what skill_manager.discover_skills() answers
DiscoverResults ==
    {<<>>, <<C1>>, <<A1, B1>>, <<C1, A2>>, <<B0, C2>>, <<A1, B1, C1>>}

\* reindex_all: collection.get / collection.delete raising, discover_skills
\* raising, collection.count raising in the closing get_stats
ReindexFaults == {"none", "clear", "discover", "count"}

\* the for loop of reindex_all over the discovered skills; failing holds the
\* positions at which collection.add raises
RECURSIVE ReindexLoop(_, _, _, _)
ReindexLoop(st, skills, failing, i) ==
    IF i > Len(skills) THEN st
    ELSE LET r == IndexSkillCall(st.collection, st.graph, skills[i],
                                 IF i \in failing THEN "add" ELSE "none")
         IN  ReindexLoop(
                 [collection |-> r.collection, graph |-> r.graph,
                  indexed_count |-> st.indexed_count + (IF r.raised THEN 0 ELSE 1),
                  failed_count |-> st.failed_count + (IF r.raised THEN 1 ELSE 0)],
                 skills, failing, i + 1)

\* the result of a reindex_all that raised, leaving c, g and last behind
ReindexRaised(c, g, last) ==
    [raised |-> TRUE, collection |-> c, graph |-> g, last_indexed |-> last,
     indexed_count |-> 0, failed_count |-> 0, stats |-> ErrorStats]

\* reindex_all whose force leaves the graph as it is
ReindexCallKeepsGraph(c, g, mgr, last, force, skills, failing, fault, now) ==
    IF ~mgr.present THEN ReindexRaised(c, g, last)
    ELSE IF force /\ fault = "clear" THEN ReindexRaised(c, g, last)
    ELSE LET c1 == IF force THEN CollectionDelete(c, CollectionIds(c)) ELSE c
             g1 == g
         IN  IF fault = "discover" THEN ReindexRaised(c1, g1, last)
             ELSE LET st == ReindexLoop([collection |-> c1, graph |-> g1,
                                         indexed_count |-> 0, failed_count |-> 0],
                                        skills, failing, 1)
                  IN  [raised |-> FALSE,
                       collection |-> st.collection, graph |-> st.graph,
                       last_indexed |-> now,
                       indexed_count |-> st.indexed_count,
                       failed_count |-> st.failed_count,
                       stats |-> GetStatsCall(st.collection, st.graph, now,
                                              fault).value]

\* reindex_all that tests for the skill manager after the clear
ReindexCallLateCheck(c, g, mgr, last, force, skills, failing, fault, now) ==
    IF force /\ fault = "clear" THEN ReindexRaised(c, g, last)
    ELSE LET c1 == IF force THEN CollectionDelete(c, CollectionIds(c)) ELSE c
             g1 == IF force THEN EmptyGraph ELSE g
         IN  IF ~mgr.present \/ fault = "discover" THEN ReindexRaised(c1, g1, last)
             ELSE LET st == ReindexLoop([collection |-> c1, graph |-> g1,
                                         indexed_count |-> 0, failed_count |-> 0],
                                        skills, failing, 1)
                  IN  [raised |-> FALSE,
                       collection |-> st.collection, graph |-> st.graph,
                       last_indexed |-> now,
                       indexed_count |-> st.indexed_count,
                       failed_count |-> st.failed_count,
                       stats |-> GetStatsCall(st.collection, st.graph, now,
                                              fault).value]

\* reindex_all that stamps the time before it discovers the skills
ReindexCallStampsEarly(c, g, mgr, last, force, skills, failing, fault, now) ==
    IF ~mgr.present THEN ReindexRaised(c, g, last)
    ELSE IF force /\ fault = "clear" THEN ReindexRaised(c, g, last)
    ELSE LET c1 == IF force THEN CollectionDelete(c, CollectionIds(c)) ELSE c
             g1 == IF force THEN EmptyGraph ELSE g
         IN  IF fault = "discover" THEN ReindexRaised(c1, g1, now)
             ELSE LET st == ReindexLoop([collection |-> c1, graph |-> g1,
                                         indexed_count |-> 0, failed_count |-> 0],
                                        skills, failing, 1)
                  IN  [raised |-> FALSE,
                       collection |-> st.collection, graph |-> st.graph,
                       last_indexed |-> now,
                       indexed_count |-> st.indexed_count,
                       failed_count |-> st.failed_count,
                       stats |-> GetStatsCall(st.collection, st.graph, now,
                                              fault).value]

\* reindex_all(force) at time now, with discover_skills answering skills
ReindexCall(c, g, mgr, last, force, skills, failing, fault, now) ==
    IF ~mgr.present THEN ReindexRaised(c, g, last)
    ELSE IF force /\ fault = "clear" THEN ReindexRaised(c, g, last)
    ELSE LET c1 == IF force THEN CollectionDelete(c, CollectionIds(c)) ELSE c
             g1 == IF force THEN EmptyGraph ELSE g
         IN  IF fault = "discover" THEN ReindexRaised(c1, g1, last)
             ELSE LET st == ReindexLoop([collection |-> c1, graph |-> g1,
                                         indexed_count |-> 0, failed_count |-> 0],
                                        skills, failing, 1)
                  IN  [raised |-> FALSE,
                       collection |-> st.collection, graph |-> st.graph,
                       last_indexed |-> now,
                       indexed_count |-> st.indexed_count,
                       failed_count |-> st.failed_count,
                       stats |-> GetStatsCall(st.collection, st.graph, now,
                                              fault).value]

\* reindex_all(force); the call and the index_skill calls it makes count
\* against the bound, and the time of completion is the number of calls made
ReindexAll(force, skills, failing, fault) ==
    LET now == indexOps + Max(1, Len(skills))
        r == ReindexCall(collection, graph, skill_manager, last_indexed, force,
                         skills, failing, fault, now)
    IN  /\ Observable
        /\ now <= MaxIndexOps
        /\ indexOps' = now
        /\ collection' = r.collection
        /\ graph' = r.graph
        /\ last_indexed' = r.last_indexed
        /\ out' = [op |-> "reindex_all", force |-> force, skills |-> skills,
                   failing |-> failing, fault |-> fault,
                   existing_ids |-> CollectionIds(collection),
                   raised |-> r.raised,
                   indexed_count |-> r.indexed_count,
                   failed_count |-> r.failed_count,
                   stats |-> r.stats]
        /\ UNCHANGED <<skill_manager, repoVars, raceVars>>

----------------------------------------------------------------------------
(* Read-only calls *)

\* extract_relationships(skill), called on its own
CallExtractRelationships(skill) ==
    /\ Observable
    /\ out' = [op |-> "extract_relationships", skill |-> skill,
               relationships |-> ExtractRelationships(graph, skill)]
    /\ UNCHANGED <<engineVars, repoVars, raceVars>>

\* _graph_search(seed_skill_id, max_depth), called on its own
CallGraphSearch(seed_skill_id, max_depth) ==
    /\ Observable
    /\ out' = [op |-> "_graph_search", seed |-> seed_skill_id,
               max_depth |-> max_depth,
               results |-> GraphSearch(graph, seed_skill_id, max_depth, "none")]
    /\ UNCHANGED <<engineVars, repoVars, raceVars>>

\* get_related_skills(skill_id, max_depth)
GetRelatedSkills(skill_id, max_depth) ==
    /\ Observable
    /\ out' = [op |-> "get_related_skills", skill_id |-> skill_id,
               max_depth |-> max_depth,
               related_ids |-> RelatedIds(graph, skill_id, max_depth),
               skills |-> RelatedSkills(graph, skill_manager, skill_id, max_depth)]
    /\ UNCHANGED <<engineVars, repoVars, raceVars>>

----------------------------------------------------------------------------
(* RepositoryManager: URLs *)

\* A URL is the sequence of its parts: a scheme or user prefix, then host
\* names, separators and path segments, e.g. https://h/o/r.git is
\* <<"https://", "h", "/", "o", "/", "r", ".git">>
Urls ==
    {<<"https://", "h", "/", "o", "/", "r", ".git">>,
     <<"git@", "h", ":", "o", "/", "r", ".git">>,
     <<"https://", "h", "/", "o", "/", "s", "/">>,
     <<"git://", "h", "/", "p">>,
     <<"ftp://", "h", "/", "o", "/", "r">>,
     <<"git@", "h">>,
     <<"https://", "h">>,
     <<>>}

\* str.rstrip(ch), str.lstrip(ch)
RECURSIVE RStrip(_, _)
RStrip(str, ch) ==
    IF str # <<>> /\ str[Len(str)] = ch
    THEN RStrip(SubSeq(str, 1, Len(str) - 1), ch)
    ELSE str

RECURSIVE LStrip(_, _)
LStrip(str, ch) ==
    IF str # <<>> /\ Head(str) = ch THEN LStrip(Tail(str), ch) ELSE str

\* the position of the first ch in str, Len(str) + 1 when there is none
IndexOf(str, ch) ==
    IF Contains(str, ch)
    THEN CHOOSE i \in DOMAIN str : str[i] = ch /\ \A j \in 1..(i - 1) : str[j] # ch
    ELSE Len(str) + 1

\* urlparse(url): netloc up to the first "/", path from it on; a string
\* without a scheme is all path
UrlParse(url) ==
    IF url # <<>> /\ Head(url) \in {"https://", "http://", "git://", "ftp://"}
    THEN LET rest == Tail(url)
             k == IndexOf(rest, "/")
         IN  [scheme |-> Head(url),
              netloc |-> SubSeq(rest, 1, k - 1),
              path |-> SubSeq(rest, k, Len(rest))]
    ELSE [scheme |-> "", netloc |-> <<>>, path |-> url]

\* _is_valid_git_url(url)
IsValidGitUrl(url) ==
    IF url = <<>> THEN FALSE
    ELSE IF Head(url) \in {"https://", "http://"}
    THEN UrlParse(url).netloc # <<>> /\ UrlParse(url).path # <<>>
    ELSE IF Head(url) = "git@" THEN Contains(url, ":")
    ELSE Head(url) = "git://"

\* _generate_repo_id(url): the path of the URL without trailing "/" and
\* ".git", so that the HTTPS and SSH URLs of one repository give one id
GenerateRepoId(url) ==
    LET stripped == RStrip(url, "/")
        clean_url == IF stripped # <<>> /\ stripped[Len(stripped)] = ".git"
                     THEN SubSeq(stripped, 1, Len(stripped) - 1)
                     ELSE stripped
    IN  IF url # <<>> /\ Head(url) = "git@" /\ Contains(clean_url, ":")
        THEN LStrip(RStrip(SubSeq(clean_url, IndexOf(clean_url, ":") + 1,
                                  Len(clean_url)), "/"), "/")
        ELSE LStrip(UrlParse(clean_url).path, "/")

----------------------------------------------------------------------------
(* RepositoryManager: metadata and calls *)

Priorities == {0, 100, 101}

SkillCounts == {0, 1}

RepoIds == {<<"o", "/", "r">>, <<"o", "/", "s">>, <<"p">>, <<"z">>}

\* get_repository returning None
NoRepository ==
    [id |-> <<None>>, url |-> <<>>, priority |-> 0, last_updated |-> 0,
     skill_count |-> 0]

\* the ids of the entries of the metadata file, in file order
MetadataIds(repositories) == [i \in DOMAIN repositories |-> repositories[i].id]

\* get_repository(repo_id): the first entry with the id, or None
GetRepository(repositories, repo_id) ==
    IF Contains(MetadataIds(repositories), repo_id)
    THEN repositories[IndexOf(MetadataIds(repositories), repo_id)]
    ELSE NoRepository

\* _save_repository(repository): load, append, write
SaveRepository(repositories, repository) == Append(repositories, repository)

\* _update_repository_metadata(repository): replace the first entry with
\* the id, write
UpdateRepositoryMetadata(repositories, repository) ==
    LET ids == MetadataIds(repositories)
    IN  IF Contains(ids, repository.id)
        THEN [repositories EXCEPT ![IndexOf(ids, repository.id)] = repository]
        ELSE repositories

\* _delete_repository_metadata(repo_id): keep the entries with another id
RECURSIVE DeleteRepositoryMetadata(_, _)
DeleteRepositoryMetadata(repositories, repo_id) ==
    IF repositories = <<>> THEN <<>>
    ELSE (IF Head(repositories).id # repo_id THEN <<Head(repositories)>> ELSE <<>>)
         \o DeleteRepositoryMetadata(Tail(repositories), repo_id)

\* the result of a call that raised: nothing written
RepoRaised(repositories, dirs, error, cloned) ==
    [metadata_file |-> repositories, base_dir |-> dirs, raised |-> error,
     cloned |-> cloned]

\* add_repository cloning before it looks the id up
AddRepositoryClonesFirst(repositories, dirs, url, priority, fault, now, count) ==
    IF ~IsValidGitUrl(url) THEN RepoRaised(repositories, dirs, "ValueError", FALSE)
    ELSE IF ~(0 <= priority /\ priority <= 100)
    THEN RepoRaised(repositories, dirs, "ValueError", FALSE)
    ELSE LET repo_id == GenerateRepoId(url)
         IN  IF fault = "clone" \/ repo_id \in dirs
             THEN RepoRaised(repositories, dirs, "ValueError", TRUE)
             ELSE IF GetRepository(repositories, repo_id) # NoRepository
             THEN RepoRaised(repositories, dirs \cup {repo_id}, "ValueError", TRUE)
             ELSE [metadata_file |->
                       SaveRepository(repositories,
                                      [id |-> repo_id, url |-> url,
                                       priority |-> priority, last_updated |-> now,
                                       skill_count |-> count]),
                   base_dir |-> dirs \cup {repo_id},
                   raised |-> "none", cloned |-> TRUE]

\* add_repository(url, priority): fault = "clone" is clone_from raising
\* GitCommandError, which git also does when the target directory exists;
\* now is datetime.now(), count what _count_skills finds in the clone
AddRepositoryCall(repositories, dirs, url, priority, fault, now, count) ==
    IF ~IsValidGitUrl(url) THEN RepoRaised(repositories, dirs, "ValueError", FALSE)
    ELSE IF ~(0 <= priority /\ priority <= 100)
    THEN RepoRaised(repositories, dirs, "ValueError", FALSE)
    ELSE LET repo_id == GenerateRepoId(url)
         IN  IF GetRepository(repositories, repo_id) # NoRepository
             THEN RepoRaised(repositories, dirs, "ValueError", FALSE)
             ELSE IF fault = "clone" \/ repo_id \in dirs
             THEN RepoRaised(repositories, dirs, "ValueError", TRUE)
             ELSE [metadata_file |->
                       SaveRepository(repositories,
                                      [id |-> repo_id, url |-> url,
                                       priority |-> priority, last_updated |-> now,
                                       skill_count |-> count]),
                   base_dir |-> dirs \cup {repo_id},
                   raised |-> "none", cloned |-> TRUE]

\* update_repository(repo_id): fault = "pull" is origin.pull() raising
\* GitCommandError; git.Repo on a missing directory raises NoSuchPathError,
\* which is not caught
UpdateRepositoryCall(repositories, dirs, repo_id, fault, now, count) ==
    LET repository == GetRepository(repositories, repo_id)
    IN  IF repository = NoRepository
        THEN RepoRaised(repositories, dirs, "ValueError", FALSE)
        ELSE IF repo_id \notin dirs
        THEN RepoRaised(repositories, dirs, "NoSuchPathError", FALSE)
        ELSE IF fault = "pull"
        THEN RepoRaised(repositories, dirs, "ValueError", FALSE)
        ELSE [metadata_file |->
                  UpdateRepositoryMetadata(
                      repositories,
                      [repository EXCEPT !.last_updated = now, !.skill_count = count]),
              base_dir |-> dirs, raised |-> "none", cloned |-> FALSE]

\* remove_repository(repo_id): fault = "rmtree" is shutil.rmtree raising
\* OSError, before the metadata entry is deleted
RemoveRepositoryCall(repositories, dirs, repo_id, fault) ==
    LET repository == GetRepository(repositories, repo_id)
    IN  IF repository = NoRepository
        THEN RepoRaised(repositories, dirs, "ValueError", FALSE)
        ELSE IF repo_id \in dirs /\ fault = "rmtree"
        THEN RepoRaised(repositories, dirs, "ValueError", FALSE)
        ELSE [metadata_file |-> DeleteRepositoryMetadata(repositories, repo_id),
              base_dir |-> dirs \ {repo_id}, raised |-> "none", cloned |-> FALSE]

AddRepository(url, priority, fault, count) ==
    LET r == AddRepositoryCall(metadata_file, base_dir, url, priority, fault,
                               repoOps + 1, count)
    IN  /\ repoOps < MaxRepoOps
        /\ repoOps' = repoOps + 1
        /\ metadata_file' = r.metadata_file
        /\ base_dir' = r.base_dir
        /\ out' = [op |-> "add_repository", url |-> url, priority |-> priority,
                   fault |-> fault, raised |-> r.raised, cloned |-> r.cloned]
        /\ UNCHANGED <<engineVars, raceVars>>

UpdateRepository(repo_id, fault, count) ==
    LET r == UpdateRepositoryCall(metadata_file, base_dir, repo_id, fault,
                                  repoOps + 1, count)
    IN  /\ repoOps < MaxRepoOps
        /\ repoOps' = repoOps + 1
        /\ metadata_file' = r.metadata_file
        /\ base_dir' = r.base_dir
        /\ out' = [op |-> "update_repository", repo_id |-> repo_id,
                   fault |-> fault, raised |-> r.raised]
        /\ UNCHANGED <<engineVars, raceVars>>

RemoveRepository(repo_id, fault) ==
    LET r == RemoveRepositoryCall(metadata_file, base_dir, repo_id, fault)
    IN  /\ repoOps < MaxRepoOps
        /\ repoOps' = repoOps + 1
        /\ metadata_file' = r.metadata_file
        /\ base_dir' = r.base_dir
        /\ out' = [op |-> "remove_repository", repo_id |-> repo_id,
                   fault |-> fault, raised |-> r.raised]
        /\ UNCHANGED <<engineVars, raceVars>>

\* a new manager on a directory without a metadata file
RepoInit ==
    /\ metadata_file = <<>>
    /\ base_dir = {}
    /\ repoOps = 0

----------------------------------------------------------------------------
(* Concurrent callers: the calls taken one statement at a time *)

\* what the writer indexes, what discover_skills answers the reindexer, and
\* what the engine holds when the callers arrive
RaceSkills == {A2, C2}

RaceCorpora == {<<>>, <<C1>>}

RaceIndexed == {<<>>, <<B1>>}

\* the lock around index_skill and reindex_all is free for a caller when
\* the other caller is not inside its call
InCall(caller) == caller.pc \notin {"idle", "done"}

\* a write that goes unnoticed by the read in progress
DisturbUnnoticed(reader) == reader

\* a read in progress has a write happen under it
Disturb(reader) ==
    IF InCall(reader) THEN [reader EXCEPT !.disturbed = TRUE] ELSE reader

\* graph.clear() keeping what the graph holds
GraphClearKeeps(g) == g

\* graph.clear()
GraphClear(g) == EmptyGraph

\* a statement of the writer or the reindexer that writes to the index
WriteStep(c, g, last) ==
    /\ collection' = c
    /\ graph' = g
    /\ last_indexed' = last
    /\ statsReader' = Disturb(statsReader)
    /\ searchReader' = Disturb(searchReader)
    /\ UNCHANGED <<skill_manager, indexOps, out, repoVars, serialized>>

\* index_skill(skill) is called
WriterStart(skill) ==
    /\ writer.pc = "idle"
    /\ serialized => ~InCall(reindexer)
    /\ writer' = [pc |-> "add", skill |-> skill]
    /\ UNCHANGED <<engineVars, out, repoVars, serialized, reindexer, statsReader,
                   searchReader>>

\* collection.add(...)
WriterAdd ==
    /\ writer.pc = "add"
    /\ writer' = [writer EXCEPT !.pc = "node"]
    /\ WriteStep(CollectionAdd(collection, writer.skill.id,
                               CreateEmbeddableText(writer.skill),
                               Metadata(writer.skill)),
                 graph, last_indexed)
    /\ UNCHANGED reindexer

\* graph.add_node(...)
WriterNode ==
    /\ writer.pc = "node"
    /\ writer' = [writer EXCEPT !.pc = "edges"]
    /\ WriteStep(collection,
                 AddNode(graph, writer.skill.id,
                         [name |-> writer.skill.name,
                          category |-> writer.skill.category,
                          tags |-> writer.skill.tags]),
                 last_indexed)
    /\ UNCHANGED reindexer

\* extract_relationships and the add_edge loop
WriterEdges ==
    /\ writer.pc = "edges"
    /\ writer' = [writer EXCEPT !.pc = "done"]
    /\ WriteStep(collection,
                 AddEdges(graph, ExtractRelationships(graph, writer.skill), 1),
                 last_indexed)
    /\ UNCHANGED reindexer

\* reindex_all(force=True) is called
ReindexStart ==
    /\ reindexer.pc = "idle"
    /\ serialized => ~InCall(writer)
    /\ skill_manager.present
    /\ reindexer' = [pc |-> "get"]
    /\ UNCHANGED <<engineVars, out, repoVars, serialized, writer, statsReader,
                   searchReader>>

\* existing_ids = self.collection.get()["ids"]
ReindexGet ==
    /\ reindexer.pc = "get"
    /\ reindexer' = [pc |-> "delete", existing_ids |-> CollectionIds(collection)]
    /\ UNCHANGED <<engineVars, out, repoVars, serialized, writer, statsReader,
                   searchReader>>

\* if existing_ids: self.collection.delete(ids=existing_ids)
ReindexDelete ==
    /\ reindexer.pc = "delete"
    /\ reindexer' = [pc |-> "clear"]
    /\ WriteStep(IF reindexer.existing_ids # {}
                 THEN CollectionDelete(collection, reindexer.existing_ids)
                 ELSE collection,
                 graph, last_indexed)
    /\ UNCHANGED writer

\* self.graph.clear()
ReindexClear ==
    /\ reindexer.pc = "clear"
    /\ reindexer' = [pc |-> "discover"]
    /\ WriteStep(collection, GraphClear(graph), last_indexed)
    /\ UNCHANGED writer

\* skills = self.skill_manager.discover_skills()
ReindexDiscover(skills) ==
    /\ reindexer.pc = "discover"
    /\ reindexer' = [pc |-> IF skills = <<>> THEN "stamp" ELSE "add",
                     skills |-> skills, i |-> 1]
    /\ UNCHANGED <<engineVars, out, repoVars, serialized, writer, statsReader,
                   searchReader>>

\* the loop's index_skill(skill): collection.add(...)
ReindexLoopAdd ==
    LET skill == reindexer.skills[reindexer.i]
    IN  /\ reindexer.pc = "add"
        /\ reindexer' = [reindexer EXCEPT !.pc = "node"]
        /\ WriteStep(CollectionAdd(collection, skill.id,
                                   CreateEmbeddableText(skill), Metadata(skill)),
                     graph, last_indexed)
        /\ UNCHANGED writer

\* the loop's index_skill(skill): graph.add_node(...)
ReindexLoopNode ==
    LET skill == reindexer.skills[reindexer.i]
    IN  /\ reindexer.pc = "node"
        /\ reindexer' = [reindexer EXCEPT !.pc = "edges"]
        /\ WriteStep(collection,
                     AddNode(graph, skill.id,
                             [name |-> skill.name, category |-> skill.category,
                              tags |-> skill.tags]),
                     last_indexed)
        /\ UNCHANGED writer

\* the loop's index_skill(skill): the edges, then the next skill
ReindexLoopEdges ==
    LET skill == reindexer.skills[reindexer.i]
    IN  /\ reindexer.pc = "edges"
        /\ reindexer' = [reindexer EXCEPT
                           !.pc = IF reindexer.i < Len(reindexer.skills)
                                  THEN "add" ELSE "stamp",
                           !.i = reindexer.i + 1]
        /\ WriteStep(collection,
                     AddEdges(graph, ExtractRelationships(graph, skill), 1),
                     last_indexed)
        /\ UNCHANGED writer

\* self._last_indexed = datetime.now()
ReindexStamp ==
    /\ reindexer.pc = "stamp"
    /\ reindexer' = [pc |-> "done"]
    /\ WriteStep(collection, graph, last_indexed + 1)
    /\ UNCHANGED writer

\* a statement of a reader: nothing of the index is assigned
ReadStep ==
    UNCHANGED <<engineVars, out, repoVars, serialized, writer, reindexer>>

\* get_stats() is called
StatsStart ==
    /\ statsReader.pc = "idle"
    /\ statsReader' = [pc |-> "count", disturbed |-> FALSE]
    /\ ReadStep
    /\ UNCHANGED searchReader

\* total_skills = self.collection.count()
StatsCount ==
    /\ statsReader.pc = "count"
    /\ statsReader' = [pc |-> "graph", disturbed |-> statsReader.disturbed,
                       total_skills |-> Count(collection)]
    /\ ReadStep
    /\ UNCHANGED searchReader

\* graph_nodes, graph_edges and last_indexed are read and the stats returned
StatsGraph ==
    /\ statsReader.pc = "graph"
    /\ statsReader' =
         [pc |-> "done", disturbed |-> statsReader.disturbed,
          stats |-> [total_skills |-> statsReader.total_skills,
                     vector_store_size |-> statsReader.total_skills * BytesPerSkill,
                     graph_nodes |-> NumberOfNodes(graph),
                     graph_edges |-> NumberOfEdges(graph),
                     last_indexed |-> IF last_indexed # 0
                                      THEN IsoFormat(last_indexed) ELSE "never"]]
    /\ ReadStep
    /\ UNCHANGED searchReader

\* every stored document is equally near to the reader's query
RaceDist == [id \in CollectionIds(collection) |-> 0]

\* search(query, top_k=1) is called
SearchStart ==
    /\ searchReader.pc = "idle"
    /\ searchReader' = [pc |-> "vector", disturbed |-> FALSE]
    /\ ReadStep
    /\ UNCHANGED statsReader

\* vector_results = self._vector_search(...)
SearchReadVector ==
    /\ searchReader.pc = "vector"
    /\ searchReader' =
         [pc |-> "graph", disturbed |-> searchReader.disturbed,
          vector_results |-> SearchVector(collection, RaceDist, <<>>, "", 1, "none")]
    /\ ReadStep
    /\ UNCHANGED statsReader

\* graph_results = self._graph_search(...), then the combined, filtered and
\* cut results are returned
SearchReadGraph ==
    LET graph_results == SearchGraph(graph, searchReader.vector_results, "none")
        combined == CombineResults(skill_manager, searchReader.vector_results,
                                   graph_results, "none")
    IN  /\ searchReader.pc = "graph"
        /\ searchReader' =
             [pc |-> "done", disturbed |-> searchReader.disturbed,
              vector_results |-> searchReader.vector_results,
              graph_results |-> graph_results,
              results |-> IF combined.raised THEN <<>>
                          ELSE Take(ApplyFilters(combined.value, <<>>, ""), 1)]
        /\ ReadStep
        /\ UNCHANGED statsReader

----------------------------------------------------------------------------
(* Process restart *)

\* The process ends and a new engine is constructed on the same storage
\* path: PersistentClient.get_or_create_collection reopens the stored
\* collection, _init_networkx makes an empty DiGraph, _last_indexed is None
Restart ==
    /\ Observable
    /\ out.op # "restart"
    /\ graph' = EmptyGraph
    /\ last_indexed' = 0
    /\ out' = [op |-> "restart"]
    /\ UNCHANGED <<collection, skill_manager, indexOps, repoVars, raceVars>>

----------------------------------------------------------------------------
(* Specification *)

\* no call of the concurrent callers is in progress
RaceIdle ==
    /\ writer = [pc |-> "idle"]
    /\ reindexer = [pc |-> "idle"]
    /\ statsReader = [pc |-> "idle"]
    /\ searchReader = [pc |-> "idle"]

Init ==
    /\ collection = <<>>
    /\ graph = EmptyGraph
    /\ skill_manager \in Managers
    /\ indexOps = 0
    /\ last_indexed = 0
    /\ out = [op |-> "init"]
    /\ RepoInit
    /\ serialized = TRUE
    /\ RaceIdle

Next ==
    \/ \E skill \in SkillPool, fault \in IndexFaults : IndexSkill(skill, fault)
    \/ /\ Observable
       /\ \E force \in BOOLEAN, skills \in DiscoverResults, fault \in ReindexFaults :
             \E failing \in (IF fault = "none" THEN SUBSET (1..Len(skills))
                             ELSE {{}}) :
               ReindexAll(force, skills, failing, fault)
    \/ \E fault \in StatsFaults : GetStats(fault)
    \/ \E query \in Queries, top_k \in 1..MaxTopK :
          Search(query, [id \in CollectionIds(collection) |-> 0], <<>>, "", top_k,
                 "none")
    \/ \E skill \in SkillPool : CallExtractRelationships(skill)
    \/ \E seed \in NodeIds, max_depth \in 0..MaxDepth : CallGraphSearch(seed, max_depth)
    \/ \E id \in NodeIds, max_depth \in 0..MaxDepth : GetRelatedSkills(id, max_depth)

Spec == Init /\ [][Next]_vars

\* Indexing across process restarts
RestartNext ==
    \/ \E skill \in SkillPool, fault \in IndexFaults : IndexSkill(skill, fault)
    \/ /\ Observable
       /\ \E force \in BOOLEAN, skills \in DiscoverResults, fault \in ReindexFaults :
             \E failing \in (IF fault = "none" THEN SUBSET (1..Len(skills))
                             ELSE {{}}) :
               ReindexAll(force, skills, failing, fault)
    \/ Restart

RestartSpec == Init /\ [][RestartNext]_vars

\* The repository manager, called by a single process
RepoInitial ==
    /\ Init
    /\ skill_manager = NoManager

RepoNext ==
    \/ \E url \in Urls, priority \in Priorities, fault \in {"none", "clone"},
          count \in SkillCounts :
            AddRepository(url, priority, fault, count)
    \/ \E repo_id \in RepoIds, fault \in {"none", "pull"}, count \in SkillCounts :
            UpdateRepository(repo_id, fault, count)
    \/ \E repo_id \in RepoIds, fault \in {"none", "rmtree"} :
            RemoveRepository(repo_id, fault)

RepoSpec == RepoInitial /\ [][RepoNext]_vars

\* Callers of one engine running concurrently, with or without a lock around
\* the two writing calls; the engine holds what was indexed before
RaceInitial ==
    /\ \E skills \in RaceIndexed :
          LET st == ReindexLoop([collection |-> <<>>, graph |-> EmptyGraph,
                                 indexed_count |-> 0, failed_count |-> 0],
                                skills, {}, 1)
          IN  collection = st.collection /\ graph = st.graph
    /\ skill_manager = ManagerAll
    /\ indexOps = 0
    /\ last_indexed = 0
    /\ out = [op |-> "init"]
    /\ RepoInit
    /\ serialized \in BOOLEAN
    /\ RaceIdle

RaceNext ==
    \/ \E skill \in RaceSkills : WriterStart(skill)
    \/ WriterAdd
    \/ WriterNode
    \/ WriterEdges
    \/ ReindexStart
    \/ ReindexGet
    \/ ReindexDelete
    \/ ReindexClear
    \/ \E skills \in RaceCorpora : ReindexDiscover(skills)
    \/ ReindexLoopAdd
    \/ ReindexLoopNode
    \/ ReindexLoopEdges
    \/ ReindexStamp
    \/ StatsStart
    \/ StatsCount
    \/ StatsGraph
    \/ SearchStart
    \/ SearchReadVector
    \/ SearchReadGraph

RaceSpec == RaceInitial /\ [][RaceNext]_vars

\* The hybrid ranker on the indexes index_skill builds
SearchNext ==
    \/ \E skill \in RankedPool, fault \in IndexFaults : IndexForSearch(skill, fault)
    \/ /\ Observable
       /\ \E query \in Queries, dist \in [CollectionIds(collection) -> 0..MaxDist],
             toolchain \in Toolchains, category \in CategoryFilters,
             top_k \in 1..MaxTopK, fault \in SearchFaults :
               Search(query, dist, toolchain, category, top_k, fault)
    \/ /\ Observable
       /\ \E query \in Queries, toolchain \in Toolchains,
             category \in CategoryFilters, top_k \in 1..MaxTopK :
               SearchBlank(query, toolchain, category, top_k)

SearchSpec == Init /\ [][SearchNext]_vars

----------------------------------------------------------------------------
(* Claims about the hybrid ranker, checked under SearchSpec *)

\* a search that got as far as its try block
Searched == out.op = "search" /\ ~IsBlank(out.query)

\* the ids of a phase's result list, and an id's score in it (0 when absent)
PhaseIds(results) == {results[i].skill_id : i \in DOMAIN results}

PhaseScore(results, id) ==
    IF id \in PhaseIds(results)
    THEN results[CHOOSE i \in DOMAIN results : results[i].skill_id = id].score
    ELSE FZero

\* 10 * score = 7 * v + 3 * g
IsWeightedSum(score, v, g) ==
    10 * score[1] * v[2] * g[2] = (7 * v[1] * g[2] + 3 * g[1] * v[2]) * score[2]

ExpectedMatchType(v, g) ==
    CASE v[1] # 0 /\ g[1] # 0 -> "hybrid"
      [] v[1] # 0 /\ g[1] = 0 -> "vector"
      [] OTHER -> "graph"

\* C1: every id of either phase that load_skill resolves gets exactly one
\* combined record, with score 0.7 * vectorScore + 0.3 * graphScore (0 for a
\* phase the id is absent from) and match type hybrid / vector / graph
\* according to which of the two scores are non-zero; no other record is made
C1_CombineScores ==
    (Searched /\ ~out.try_raised) =>
        LET ids == PhaseIds(out.vector_results) \cup PhaseIds(out.graph_results)
        IN  /\ \A i \in DOMAIN out.combined : out.combined[i].skill.id \in ids
            /\ \A id \in ids :
                 LET v == PhaseScore(out.vector_results, id)
                     g == PhaseScore(out.graph_results, id)
                     hits == {i \in DOMAIN out.combined : out.combined[i].skill.id = id}
                 IN  IF skill_manager.present /\ load_skill(skill_manager, id) # NoSkill
                     THEN /\ Cardinality(hits) = 1
                          /\ \A i \in hits :
                               /\ IsWeightedSum(out.combined[i].score, v, g)
                               /\ out.combined[i].match_type = ExpectedMatchType(v, g)
                     ELSE hits = {}

\* a combine that produced a hybrid, a vector-only and a graph-only record
C1_Witness ==
    /\ Searched /\ ~out.try_raised
    /\ \A mt \in {"hybrid", "vector", "graph"} :
         \E i \in DOMAIN out.combined : out.combined[i].match_type = mt

\* C2: search never raises; a failed vector call leaves no vector candidates
\* (and so no results), a failed traversal leaves no graph candidates (every
\* result is a vector match), and a search whose try block fails returns []
C2_SearchNeverRaises ==
    out.op = "search" =>
        /\ ~out.raised
        /\ out.fault = "query" => (out.vector_results = <<>> /\ out.results = <<>>)
        /\ out.fault = "graph" =>
             /\ out.graph_results = <<>>
             /\ \A i \in DOMAIN out.results : out.results[i].match_type = "vector"
        /\ out.try_raised => out.results = <<>>

\* a traversal failed on a seed that has neighbours, and search still
\* returned the vector matches
C2_Witness ==
    /\ Searched /\ out.fault = "graph"
    /\ out.results # <<>>
    /\ Neighbors(graph, out.vector_results[1].skill_id) # <<>>

\* vector hits in retrieval order, then graph-only ids in traversal order
RECURSIVE GraphOnlyIds(_, _)
GraphOnlyIds(graph_results, seen) ==
    IF graph_results = <<>> THEN <<>>
    ELSE (IF Head(graph_results).skill_id \in seen THEN <<>>
          ELSE <<Head(graph_results).skill_id>>)
         \o GraphOnlyIds(Tail(graph_results), seen)

InsertionOrder ==
    [i \in DOMAIN out.vector_results |-> out.vector_results[i].skill_id]
    \o GraphOnlyIds(out.graph_results, PhaseIds(out.vector_results))

PositionIn(seq, x) == CHOOSE i \in DOMAIN seq : seq[i] = x

\* C3: the returned list has at most top_k entries, its scores never
\* increase, and equal scores keep insertion order
C3_SortedStableTopK ==
    Searched =>
        /\ Len(out.results) <= out.top_k
        /\ \A i, j \in DOMAIN out.results :
             i < j =>
               /\ ~FLess(out.results[i].score, out.results[j].score)
               /\ FEq(out.results[i].score, out.results[j].score) =>
                    PositionIn(InsertionOrder, out.results[i].skill.id)
                      < PositionIn(InsertionOrder, out.results[j].skill.id)

\* two returned entries tie, the first of them having entered the score map
\* first, and the list is full
C3_Witness ==
    /\ Searched
    /\ Len(out.results) = out.top_k
    /\ \E i, j \in DOMAIN out.results :
         i < j /\ FEq(out.results[i].score, out.results[j].score)

\* C4: with a category, every returned skill has that category; with a
\* toolchain, every returned skill has a tag containing it, ignoring case
C4_FiltersHold ==
    Searched =>
        \A i \in DOMAIN out.results :
            /\ out.category # "" => out.results[i].skill.category = out.category
            /\ out.toolchain # <<>> =>
                 \E k \in DOMAIN out.results[i].skill.tags :
                    IsSubstring(Lower(out.toolchain), Lower(out.results[i].skill.tags[k]))

\* both filters given; a graph-only match passed them and another candidate
\* was dropped by them
C4_Witness ==
    /\ Searched
    /\ out.category # "" /\ out.toolchain # <<>>
    /\ \E i \in DOMAIN out.results : out.results[i].match_type = "graph"
    /\ \E i \in DOMAIN out.combined : out.combined[i].skill.category # out.category

----------------------------------------------------------------------------
(* Claims about the relationship graph, checked under Spec *)

\* the nodes some node of S has an edge to
Successors(g, S) == {m \in NodeIds : \E n \in S : HasEdge(g, n, m)}

\* the nodes within k hops of the seed over outgoing edges
RECURSIVE Within(_, _, _)
Within(g, seed, k) ==
    IF k = 0 THEN {seed}
    ELSE LET W == Within(g, seed, k - 1) IN W \cup Successors(g, W)

\* the least number of hops from the seed to a node it reaches
HopDistance(g, seed, n) ==
    CHOOSE k \in 0..Cardinality(NodeIds) :
        /\ n \in Within(g, seed, k)
        /\ \A j \in 0..(k - 1) : n \notin Within(g, seed, j)

IdsOf(results) == [i \in DOMAIN results |-> results[i].skill_id]

\* C5: from a seed in the graph, _graph_search returns exactly the nodes
\* within max_depth hops, each once, scored 1 / (hops + 1), the seed first
\* with score 1; a seed without outgoing edges yields its own record only
C5_GraphSearchBFS ==
    (out.op = "_graph_search" /\ InGraph(graph, out.seed)) =>
        LET ids == IdsOf(out.results)
        IN  /\ \A i, j \in DOMAIN ids : i # j => ids[i] # ids[j]
            /\ Range(ids) = Within(graph, out.seed, out.max_depth)
            /\ \A i \in DOMAIN ids :
                 out.results[i].score[1] * (HopDistance(graph, out.seed, ids[i]) + 1)
                   = out.results[i].score[2]
            /\ ids[1] = out.seed /\ out.results[1].score = <<1, 1>>
            /\ Neighbors(graph, out.seed) = <<>> => Len(out.results) = 1

\* a traversal with max_depth 2 that returned nodes one and two hops away
\* and left out a node the seed reaches only in three hops
C5_Witness ==
    /\ out.op = "_graph_search" /\ InGraph(graph, out.seed)
    /\ out.max_depth = 2
    /\ \E i \in DOMAIN out.results : out.results[i].score = <<1, 3>>
    /\ \E i \in DOMAIN out.results : out.results[i].score = <<1, 2>>
    /\ Within(graph, out.seed, Cardinality(NodeIds)) # Range(IdsOf(out.results))

\* C6: the ids get_related_skills visits are those of _graph_search from the
\* same seed and depth, without the seed, in the same order; nothing is
\* returned for an id outside the graph or without outgoing edges
C6_RelatedIsGraphSearchSansSeed ==
    out.op = "get_related_skills" =>
        LET found == IdsOf(GraphSearch(graph, out.skill_id, out.max_depth, "none"))
        IN  /\ out.related_ids = SelectSeq(found, LAMBDA id : id # out.skill_id)
            /\ (~InGraph(graph, out.skill_id) \/ Neighbors(graph, out.skill_id) = <<>>)
                 => (out.related_ids = <<>> /\ out.skills = <<>>)

\* related skills two hops deep were visited
C6_Witness ==
    /\ out.op = "get_related_skills"
    /\ out.max_depth = 2
    /\ Len(out.related_ids) >= 3
    /\ \E i \in DOMAIN out.related_ids :
         HopDistance(graph, out.skill_id, out.related_ids[i]) = 2

KindRank(kind) ==
    CASE kind = "depends_on" -> 1
      [] kind = "same_category" -> 2
      [] kind = "shared_tag" -> 3

C8_EveryKindHeld ==
    (out.op = "index_skill" /\ out.ok) =>
        /\ \A i \in DOMAIN out.relationships :
             LET r == out.relationships[i]
             IN  HasEdge(graph, r[1], r[3]) /\ graph.rel[<<r[1], r[3]>>] = r[2]
        /\ Len(Neighbors(graph, out.skill.id)) >= Cardinality(Range(out.relationships))

\* C9: when two skills of one category are indexed one after the other, the
\* graph then holds a same_category edge from the later to the earlier, and
\* the later call creates no edge from the earlier to the later: every edge
\* it creates starts at the skill it indexes
C9_LaterToEarlier ==
    [][(/\ out.op = "index_skill" /\ out.ok
        /\ out'.op = "index_skill" /\ out'.ok
        /\ out.skill.id # out'.skill.id
        /\ out.skill.category = out'.skill.category)
       => (/\ HasEdge(graph', out'.skill.id, out.skill.id)
           /\ graph'.rel[<<out'.skill.id, out.skill.id>>] = "same_category"
           /\ \A u, v \in NodeIds :
                (HasEdge(graph', u, v) /\ ~HasEdge(graph, u, v)) => u = out'.skill.id)]_vars

\* the index after index_skill(A1), index_skill(B1), index_skill(C1) on an
\* empty engine
ScenarioGraph == IndexGraph(IndexGraph(IndexGraph(EmptyGraph, A1), B1), C1)

\* C10: after indexing A(x, {t1}), B(x, {t1, t2}), C(y, {t2}) in this order
\* with all three resolvable, get_related_skills("B", 1) returns A and C,
\* and no edge joins A and C
C10_RelatedOfB ==
    (/\ out.op = "get_related_skills" /\ out.skill_id = "B" /\ out.max_depth = 1
     /\ graph = ScenarioGraph /\ indexOps = 3
     /\ skill_manager = ManagerAll)
    => /\ {A1, C1} \subseteq Range(out.skills)
       /\ ~HasEdge(graph, "A", "C") /\ ~HasEdge(graph, "C", "A")

----------------------------------------------------------------------------
(* Claims about indexing, reindex_all and get_stats, checked under Spec *)

\* C11: a successful index_skill of a skill with non-empty embeddable text
\* raises count() by one when the id is new and leaves it unchanged when the
\* id is present; the index holds one entry per id, and the entry of the id
\* just indexed carries the document and metadata of this call
C11_OneEntryPerId ==
    [][(/\ out'.op = "index_skill" /\ out'.ok
        /\ ~IsBlankText(CreateEmbeddableText(out'.skill))
        /\ \A i \in DOMAIN collection : ~IsBlankText(collection[i].document))
       => (/\ Count(collection')
                = IF out'.skill.id \in CollectionIds(collection)
                  THEN Count(collection) ELSE Count(collection) + 1
           /\ \A i, j \in DOMAIN collection' :
                i # j => collection'[i].id # collection'[j].id
           /\ \E i \in DOMAIN collection' :
                /\ collection'[i].id = out'.skill.id
                /\ collection'[i].document = CreateEmbeddableText(out'.skill)
                /\ collection'[i].metadata = Metadata(out'.skill))]_vars

\* C12: index_skill of a skill whose embeddable text is empty or only
\* whitespace leaves count() as it was, and raises nothing
C12_EmptyTextSkipped ==
    [][(/\ out'.op = "index_skill"
        /\ IsBlankText(CreateEmbeddableText(out'.skill)))
       => (Count(collection') = Count(collection) /\ ~out'.raised)]_vars

SkillIdsOf(skills) == {skills[i].id : i \in DOMAIN skills}

DependenciesOf(skills) ==
    UNION {Range(skills[i].dependencies) : i \in DOMAIN skills}

\* C14: reindex_all(force = TRUE) clears the vector index and the graph
\* before it discovers anything: when it completes, every vector, node and
\* edge derives from a skill discovered in this pass, and when discovery
\* fails after the clear both stay empty (no rollback)
C14_ForceRebuildsFromScratch ==
    (out.op = "reindex_all" /\ out.force /\ skill_manager.present) =>
        IF out.raised
        THEN out.fault = "discover" => (collection = <<>> /\ graph = EmptyGraph)
        ELSE /\ \A i \in DOMAIN collection :
                  \E j \in DOMAIN out.skills :
                     /\ collection[i].id = out.skills[j].id
                     /\ collection[i].document = CreateEmbeddableText(out.skills[j])
                     /\ collection[i].metadata = Metadata(out.skills[j])
             /\ Range(graph.nodes)
                  \subseteq SkillIdsOf(out.skills) \cup DependenciesOf(out.skills)
             /\ \A n \in NodeIds :
                  \/ graph.attrs[n] = NoAttrs
                  \/ \E j \in DOMAIN out.skills :
                        /\ out.skills[j].id = n
                        /\ graph.attrs[n].name = out.skills[j].name
                        /\ graph.attrs[n].category = out.skills[j].category
                        /\ graph.attrs[n].tags = out.skills[j].tags
             /\ \A u, v \in NodeIds :
                  HasEdge(graph, u, v) =>
                     /\ u \in SkillIdsOf(out.skills)
                     /\ v \in SkillIdsOf(out.skills) \cup DependenciesOf(out.skills)

\* a forced rebuild completed on an index that held an id, in the store and
\* in the graph, which this pass did not discover
C14_Witness ==
    /\ out.op = "reindex_all" /\ out.force /\ ~out.raised
    /\ out.skills # <<>>
    /\ collection # <<>>
    /\ out.existing_ids \ (SkillIdsOf(out.skills) \cup DependenciesOf(out.skills)) # {}

\* the engine was not hit by a failure during the call
CleanReindex ==
    /\ out.op = "reindex_all" /\ ~out.raised
    /\ out.failing = {} /\ out.fault = "none"

\* C15: reindex_all(force = TRUE) over N discovered skills with distinct ids
\* and non-empty embeddable text returns total_skills = N and
\* graph_nodes = N, and get_stats then reports the same
C15_StatsCountDiscovered ==
    (/\ CleanReindex /\ out.force
     /\ \A i, j \in DOMAIN out.skills :
           i # j => out.skills[i].id # out.skills[j].id
     /\ \A i \in DOMAIN out.skills :
           ~IsBlankText(CreateEmbeddableText(out.skills[i])))
    => /\ out.stats.total_skills = Len(out.skills)
       /\ out.stats.graph_nodes = Len(out.skills)
       /\ GetStatsCall(collection, graph, last_indexed, "none").value = out.stats

\* C16: the graph holds exactly one node per indexed skill id, the node set
\* being the id set of the vector index, and the node of the skill just
\* indexed carries that skill's name, category and tags
C16_NodePerIndexedId ==
    /\ Range(graph.nodes) = CollectionIds(collection)
    /\ \A i, j \in DOMAIN graph.nodes : i # j => graph.nodes[i] # graph.nodes[j]
    /\ (out.op = "index_skill" /\ out.ok) =>
          /\ graph.attrs[out.skill.id].name = out.skill.name
          /\ graph.attrs[out.skill.id].category = out.skill.category
          /\ graph.attrs[out.skill.id].tags = out.skill.tags

\* C17: without a skill manager reindex_all raises, whatever force is, and
\* leaves the vector index, the graph and the timestamp as they were
C17_NoManagerRaises ==
    [][(out'.op = "reindex_all" /\ ~skill_manager.present)
       => (/\ out'.raised
           /\ collection' = collection
           /\ graph' = graph
           /\ last_indexed' = last_indexed)]_vars

\* a forced reindex_all was refused on an engine that has no skill manager
\* and holds skills and edges
C17_Witness ==
    /\ out.op = "reindex_all" /\ out.force /\ out.raised
    /\ ~skill_manager.present
    /\ collection # <<>>
    /\ \E u, v \in NodeIds : HasEdge(graph, u, v)

\* C18: in reindex_all every skill whose indexing fails is counted in
\* failed_count and not in indexed_count: the two add up to the number of
\* discovered skills, and failed_count is the number of skills whose write
\* to the index failed
C18_FailuresCounted ==
    (out.op = "reindex_all" /\ ~out.raised) =>
        /\ out.indexed_count + out.failed_count = Len(out.skills)
        /\ out.failed_count = Cardinality(out.failing)

\* the node and edge counts of the graph, counted from its contents
EdgeSet(g) == {e \in NodeIds \X NodeIds : HasEdge(g, e[1], e[2])}

\* C19: get_stats never raises; when a lookup fails it returns zeros and
\* "error", otherwise the current vector count, node count and edge count
C19_GetStatsNeverRaises ==
    out.op = "get_stats" =>
        /\ ~out.raised
        /\ IF out.fault # "none"
           THEN out.stats = [total_skills |-> 0, vector_store_size |-> 0,
                             graph_nodes |-> 0, graph_edges |-> 0,
                             last_indexed |-> "error"]
           ELSE /\ out.stats.total_skills = Cardinality(CollectionIds(collection))
                /\ out.stats.graph_nodes = Cardinality(Range(graph.nodes))
                /\ out.stats.graph_edges = Cardinality(EdgeSet(graph))
                /\ out.stats.last_indexed # "error"

\* the count lookup failed on an engine that holds skills and edges
C19_Witness ==
    /\ out.op = "get_stats" /\ out.fault = "count"
    /\ Len(collection) >= 2
    /\ EdgeSet(graph) # {}

\* C20 as stated: the timestamp changes only when a reindex_all completes,
\* a reindex_all that raises leaves it unchanged, and get_stats reports
\* "never" as long as no reindex_all has completed
C20_NeverUntilReindexed ==
    [][/\ last_indexed' # last_indexed => (out'.op = "reindex_all" /\ ~out'.raised)
       /\ (out'.op = "reindex_all" /\ ~out'.raised) => last_indexed' # 0
       /\ (out'.op = "get_stats" /\ last_indexed' = 0)
            => out'.stats.last_indexed = "never"]_vars

\* C20, amended: as above, but get_stats reports "never" before the first
\* completed reindex_all only when none of its lookups fails (it reports
\* "error" when one does), and a timestamp afterwards
C20_TimestampLifecycle ==
    [][/\ last_indexed' # last_indexed => (out'.op = "reindex_all" /\ ~out'.raised)
       /\ (out'.op = "reindex_all" /\ ~out'.raised) => last_indexed' # 0
       /\ (out'.op = "get_stats" /\ out'.fault = "none")
            => (out'.stats.last_indexed = "never" <=> last_indexed' = 0)
       /\ (out'.op = "get_stats" /\ out'.fault # "none")
            => out'.stats.last_indexed = "error"]_vars

\* get_stats reported "never" on an engine that holds indexed skills after
\* two or more calls, none of them a reindex_all that completed
C20_Witness ==
    /\ out.op = "get_stats" /\ out.stats.last_indexed = "never"
    /\ graph.nodes # <<>>
    /\ indexOps >= 2

----------------------------------------------------------------------------
(* Claims about resolution, cycles and growth, checked under Spec *)

\* load_skill(id) returns a record
Resolves(id) == skill_manager.present /\ skill_manager.cache[id] # NoSkill

\* C21: get_related_skills returns the visited ids that resolve, in visiting
\* order, each as the record load_skill returns; search ranks the resolving
\* candidates exactly as they rank among all candidates when every id
\* resolves; neither raises
C21_UnresolvedDropped ==
    /\ out.op = "get_related_skills" =>
          LET kept == SelectSeq(out.related_ids, Resolves)
          IN  /\ Len(out.skills) = Len(kept)
              /\ \A i \in DOMAIN kept : out.skills[i] = skill_manager.cache[kept[i]]
    /\ (out.op = "search" /\ ~IsBlank(out.query)) =>
          LET everyone == CombineResults(ManagerAll, out.vector_results,
                                         out.graph_results, "none").value
              kept == SelectSeq(everyone, LAMBDA r : Resolves(r.skill.id))
          IN  /\ ~out.raised
              /\ Len(out.combined) = Len(kept)
              /\ \A i \in DOMAIN kept :
                    /\ out.combined[i].skill = skill_manager.cache[kept[i].skill.id]
                    /\ out.combined[i].score = kept[i].score
              /\ \A i \in DOMAIN out.results : Resolves(out.results[i].skill.id)

\* a traversal visited an id that no longer resolves before one that does
C21_Witness ==
    /\ out.op = "get_related_skills" /\ skill_manager.present
    /\ \E i, j \in DOMAIN out.related_ids :
          /\ i < j
          /\ ~Resolves(out.related_ids[i])
          /\ Resolves(out.related_ids[j])
    /\ out.skills # <<>>

----------------------------------------------------------------------------
(* Claims about search's entry and phases, checked under SearchSpec *)

\* C22: search with an empty or whitespace-only query returns [] without
\* calling the collection, the graph or the skill manager, and without
\* raising, whatever is indexed
C22_BlankQueryTouchesNothing ==
    (out.op = "search" /\ IsBlank(out.query)) =>
        /\ out.results = <<>>
        /\ out.calls = {}
        /\ ~out.raised

\* a whitespace-only query against an index that holds two linked skills
\* the skill manager resolves
C22_Witness ==
    /\ out.op = "search" /\ IsBlank(out.query) /\ out.query # <<>>
    /\ Len(collection) >= 2
    /\ NumberOfEdges(graph) > 0
    /\ skill_manager.present
    /\ \A id \in CollectionIds(collection) : skill_manager.cache[id] # NoSkill
    /\ out.results = <<>>

\* the seed of search's traversal: the first vector hit that remains
SeedOf(vector_results) == vector_results[1].skill_id

\* the stored record r is retrieved before the stored record s: nearer to
\* the query, or as near and stored earlier
RetrievedBefore(r, s) ==
    \/ out.dist[collection[r].id] < out.dist[collection[s].id]
    \/ out.dist[collection[r].id] = out.dist[collection[s].id] /\ r < s

\* the records of the category that are among the first n retrieved
Retrieved(n) ==
    LET passing == {s \in DOMAIN collection :
                      out.category = "" \/ collection[s].metadata.category = out.category}
    IN  {s \in passing : Cardinality({r \in passing : RetrievedBefore(r, s)}) < n}

SeedRanked ==
    /\ Searched /\ out.vector_results # <<>>
    /\ InGraph(graph, SeedOf(out.vector_results))
    /\ Resolves(SeedOf(out.vector_results))
    /\ out.fault # "load"

\* the seed heads the combined ranking as a 'hybrid' entry scoring
\* 0.7 * v + 0.3, every other entry scoring at most 0.7 * v + 0.15
SeedHeadsRanking ==
    LET v == out.vector_results[1].score
    IN  /\ out.graph_results # <<>>
        /\ out.graph_results[1] = [skill_id |-> SeedOf(out.vector_results),
                                   score |-> Frac(1, 1)]
        /\ out.combined # <<>>
        /\ out.combined[1].skill.id = SeedOf(out.vector_results)
        /\ out.combined[1].match_type = "hybrid"
        /\ IsWeightedSum(out.combined[1].score, v, Frac(1, 1))
        /\ \A i \in DOMAIN out.combined :
             i > 1 =>
               /\ FLess(out.combined[i].score, out.combined[1].score)
               /\ ~FLess(Frac(14 * v[1] + 3 * v[2], 20 * v[2]), out.combined[i].score)

\* C29 as stated: whenever the top vector hit is a graph node and resolves,
\* it has graph score 1, is 'hybrid' with score 0.7 * v + 0.3 and is strictly
\* first in the combined ranking
C29_SeedAlwaysFirst == SeedRanked => SeedHeadsRanking

\* C29: when the top vector hit is a graph node and resolves, and the
\* traversal from it does not fail, it has graph score 1, is 'hybrid' with
\* score 0.7 * v + 0.3 and is strictly first in the combined ranking, every
\* other candidate scoring at most 0.7 * v + 0.15
C29_SeedFirstUnlessTraversalFails ==
    (SeedRanked /\ out.fault # "graph") => SeedHeadsRanking

\* the seed leads a second vector hit that is as near to the query and one
\* hop from the seed, which scores exactly 0.7 * v + 0.15
C29_Witness ==
    /\ SeedRanked /\ out.fault = "none"
    /\ Len(out.combined) >= 2
    /\ out.combined[2].match_type = "hybrid"
    /\ PhaseScore(out.vector_results, out.combined[2].skill.id)
         = out.vector_results[1].score
    /\ IsWeightedSum(out.combined[2].score, out.vector_results[1].score, Frac(1, 2))

----------------------------------------------------------------------------
(* Claims about cycles and growth of the graph, checked under Spec *)

NoRepeats(seq) == \A i, j \in DOMAIN seq : i # j => seq[i] # seq[j]

\* C28: index_skill accepts a skill that depends on itself or closes a
\* dependency cycle, adding the edges; _graph_search and get_related_skills
\* return on every graph, cyclic ones included, with each node at most once
C28_CyclesHandled ==
    /\ (out.op = "index_skill" /\ out.fault = "none") =>
          /\ out.ok /\ ~out.raised
          /\ \A d \in Range(out.skill.dependencies) : HasEdge(graph, out.skill.id, d)
    /\ out.op = "_graph_search" =>
          /\ NoRepeats(IdsOf(out.results))
          /\ Range(IdsOf(out.results)) \subseteq Range(graph.nodes)
    /\ out.op = "get_related_skills" =>
          /\ NoRepeats(out.related_ids)
          /\ Range(out.related_ids) \subseteq Range(graph.nodes) \ {out.skill_id}
          /\ Len(out.skills) <= Len(out.related_ids)

\* a traversal of depth 2 from a seed that lies on a dependency cycle and
\* reaches a node with a self-loop
C28_Witness ==
    /\ out.op = "_graph_search" /\ out.max_depth = 2
    /\ \E m \in NodeIds \ {out.seed} :
         HasEdge(graph, out.seed, m) /\ HasEdge(graph, m, out.seed)
    /\ \E s \in Range(IdsOf(out.results)) : HasEdge(graph, s, s)
    /\ Len(out.results) >= 3

\* a step took a vector id, a graph node or an edge between an ordered pair
\* away
SomethingRemoved ==
    \/ ~(CollectionIds(collection) \subseteq CollectionIds(collection'))
    \/ ~(Range(graph.nodes) \subseteq Range(graph'.nodes))
    \/ ~(EdgeSet(graph) \subseteq EdgeSet(graph'))

\* C30: index_skill and reindex_all(force=False) never remove a vector id, a
\* graph node or an edge between an ordered pair, so the edges of a skill's
\* earlier version outlive its re-indexing; only reindex_all(force=True)
\* removes anything
C30_OnlyForceRemoves ==
    [][SomethingRemoved => (out'.op = "reindex_all" /\ out'.force)]_vars

\* a skill was indexed again and still has an edge that its present
\* category, tags and dependencies do not give rise to
C30_Witness ==
    /\ out.op = "index_skill" /\ out.ok
    /\ \E v \in NodeIds :
         /\ HasEdge(graph, out.skill.id, v)
         /\ \A i \in DOMAIN out.relationships : out.relationships[i][3] # v

----------------------------------------------------------------------------
(* Claims about restarts, checked under RestartSpec *)

\* the graph a restarted engine holds after indexing the first i skills of a
\* corpus, and the triples the i-th skill's indexing extracts
RECURSIVE GraphAfter(_, _)
GraphAfter(skills, i) ==
    IF i = 0 THEN EmptyGraph
    ELSE IndexGraph(GraphAfter(skills, i - 1), skills[i])

DerivedAt(skills, i) == IndexRelationships(GraphAfter(skills, i - 1), skills[i])

\* C23: a reindex_all that completes right after a restart that kept a
\* vector index of skills with text, with either force value and no failed
\* write, leaves the graph with a node for every skill of the corpus and,
\* for every triple extract_relationships derived while the corpus was
\* indexed, an edge of that kind
C23_GraphRebuiltAfterRestart ==
    [][(/\ out.op = "restart" /\ collection # <<>>
        /\ \A i \in DOMAIN collection : ~IsBlankText(collection[i].document)
        /\ out'.op = "reindex_all" /\ ~out'.raised
        /\ out'.failing = {} /\ out'.fault = "none")
       => /\ \A i \in DOMAIN out'.skills : InGraph(graph', out'.skills[i].id)
          /\ \A i \in DOMAIN out'.skills :
               \A k \in DOMAIN DerivedAt(out'.skills, i) :
                  LET r == DerivedAt(out'.skills, i)[k]
                  IN  /\ HasEdge(graph', r[1], r[3])
                      /\ graph'.rel[<<r[1], r[3]>>] = r[2]]_vars

----------------------------------------------------------------------------
(* Claims about the repository manager, checked under RepoSpec *)

\* C26: whatever add, update and remove calls one process makes, the
\* metadata holds at most one entry per repository id; add_repository for a
\* URL whose derived id is registered raises ValueError without cloning and
\* leaves the metadata as it is; update_repository and remove_repository of
\* an id that is not registered raise ValueError and leave it as it is
C26_OneEntryPerRepoId ==
    [][/\ NoRepeats(MetadataIds(metadata_file'))
       /\ (/\ out'.op = "add_repository"
           /\ Contains(MetadataIds(metadata_file), GenerateRepoId(out'.url)))
          => /\ out'.raised = "ValueError"
             /\ ~out'.cloned
             /\ metadata_file' = metadata_file
             /\ base_dir' = base_dir
       /\ (/\ out'.op \in {"update_repository", "remove_repository"}
           /\ ~Contains(MetadataIds(metadata_file), out'.repo_id))
          => /\ out'.raised = "ValueError"
             /\ metadata_file' = metadata_file
             /\ base_dir' = base_dir]_vars

\* a repository registered under its HTTPS URL was refused under its SSH
\* URL, next to another registered repository
C26_Witness ==
    /\ out.op = "add_repository" /\ out.raised = "ValueError" /\ ~out.cloned
    /\ IsValidGitUrl(out.url) /\ out.priority \in 0..100
    /\ Len(metadata_file) >= 2
    /\ \E i \in DOMAIN metadata_file :
         /\ metadata_file[i].id = GenerateRepoId(out.url)
         /\ metadata_file[i].url # out.url

----------------------------------------------------------------------------
(* Claims about concurrent callers, checked under RaceSpec *)

\* the ids the graph holds as indexed: the nodes add_node gave attributes
\* (a node that only add_edge created for a dependency target has none)
IndexedNodes(g) == {n \in Range(g.nodes) : g.attrs[n] # NoAttrs}

BothFinished == writer.pc = "done" /\ reindexer.pc = "done"

StatsReturned == statsReader.pc # "done" /\ statsReader'.pc = "done"

SearchReturned == searchReader.pc # "done" /\ searchReader'.pc = "done"

====
